---- MODULE Spec2Model ----
(***************************************************************************)
(* Model of the agent orchestration loop of AuroraCraft                    *)
(* (client/src/lib/agentOrchestrator.ts) with its response parser and      *)
(* cooldown generator (agentEvents.ts) and the AI chat wrapper             *)
(* (puterAIWrapper.ts).                                                    *)
(*                                                                         *)
(* Text is modelled as a sequence of tokens: a token is an atomic piece of *)
(* a JavaScript string (a word, a field prefix, one blank, one newline).   *)
(* One action of the model is the code the generator runs between two      *)
(* suspension points (a yield or an await).                                *)
(***************************************************************************)
EXTENDS Integers, Sequences, FiniteSets, TLC

\* ------------------------------------------------------------------ bounds
MaxSteps == 2
MaxResumes == 1
HistoryLen == 2
RandomResolution == 2

\* ------------------------------------------------------- program constants
HistoryLoadCap == 20
HistoryPromptCap == 10
StepPromptCap == 5
TickMs == 1000

\* ------------------------------------------------------------ text helpers
NL == "\n"
SP == " "
WhiteSpace == {SP, NL, "\t", "\r"}

NumStr == <<"1", "2", "3", "4", "5", "6", "7", "8", "9", "10", "11", "12",
            "13", "14", "15", "16", "17", "18", "19", "20", "21", "22",
            "23", "24", "25", "26", "27", "28", "29", "30">>

Max(a, b) == IF a >= b THEN a ELSE b

\* (mutant) the quotient is rounded down
FloorDiv(a, b) == a \div b

CeilDiv(a, b) == (a + b - 1) \div b

\* s.slice(from) for a 1-based first index
SliceFrom(s, from) == IF from > Len(s) THEN <<>> ELSE SubSeq(s, from, Len(s))

\* s.slice(-n)
SliceLast(s, n) == SliceFrom(s, Max(1, Len(s) - n + 1))

\* s.indexOf(tok), 1-based; 0 when absent
IndexOfFrom(s, tok, from) ==
    LET hits == {i \in from..Len(s) : s[i] = tok}
    IN  IF hits = {} THEN 0 ELSE CHOOSE i \in hits : \A j \in hits : i <= j

IndexOf(s, tok) == IndexOfFrom(s, tok, 1)

Includes(s, tok) == \E i \in 1..Len(s) : s[i] = tok

RECURSIVE Split(_, _)
Split(s, sep) ==
    LET i == IndexOf(s, sep)
    IN  IF i = 0 THEN <<s>>
        ELSE <<SubSeq(s, 1, i - 1)>> \o Split(SliceFrom(s, i + 1), sep)

Trim(s) ==
    LET keep == {i \in 1..Len(s) : s[i] \notin WhiteSpace}
    IN  IF keep = {} THEN <<>>
        ELSE SubSeq(s, CHOOSE i \in keep : \A j \in keep : i <= j,
                       CHOOSE i \in keep : \A j \in keep : i >= j)

StartsWith(s, tok) == Len(s) > 0 /\ s[1] = tok

\* s.replace(tok, ''): the first occurrence only
ReplaceFirst(s, tok) ==
    LET i == IndexOf(s, tok)
    IN  IF i = 0 THEN s ELSE SubSeq(s, 1, i - 1) \o SliceFrom(s, i + 1)

LowerToken(t) ==
    CASE t = "PLAN" -> "plan"
      [] t = "CREATE_FILE" -> "create_file"
      [] t = "UPDATE_FILE" -> "update_file"
      [] t = "DELETE_FILE" -> "delete_file"
      [] t = "ANALYZE" -> "analyze"
      [] t = "COMPLETE" -> "complete"
      [] t = "Complete" -> "complete"
      [] t = "DEPLOY" -> "deploy"
      [] OTHER -> t

ToLowerCase(s) == [i \in 1..Len(s) |-> LowerToken(s[i])]

\* ------------------------------------------------------------ agentEvents
AgentActionType ==
    {"plan", "create_file", "update_file", "delete_file", "analyze", "complete"}

\* a value that may be absent (null / undefined) is a sequence of length <= 1
None == <<>>
Some(v) == <<v>>

getFileName(path) ==
    LET parts == Split(path, "/")
        last == parts[Len(parts)]
    IN  IF last # <<>> THEN last ELSE path

\* the match of /MARKER\s+([^\n]+)\n([\s\S]*?):::END_FILE/ attempted at the
\* marker at index i: None, or Some of the two groups
BlockMatchAt(resp, i) ==
    LET n == Len(resp)
        wsRuns == {s \in 1..(n - i) : \A j \in (i + 1)..(i + s) : resp[j] \in WhiteSpace}
        Ok(s) == LET p == i + s + 1
                     q == IndexOfFrom(resp, NL, p)
                 IN  /\ p <= n
                     /\ resp[p] # NL
                     /\ q # 0
                     /\ IndexOfFrom(resp, ":::END_FILE", q + 1) # 0
        good == {s \in wsRuns : Ok(s)}
    IN  IF good = {} THEN None
        ELSE LET s == CHOOSE s \in good : \A t \in good : s >= t
                 p == i + s + 1
                 q == IndexOfFrom(resp, NL, p)
                 e == IndexOfFrom(resp, ":::END_FILE", q + 1)
             IN  Some(<<SubSeq(resp, p, q - 1), SubSeq(resp, q + 1, e - 1)>>)

\* the match of /:::DELETE_FILE\s+([^\n]+)/ attempted at the marker at index i
LineMatchAt(resp, i) ==
    LET n == Len(resp)
        wsRuns == {s \in 1..(n - i) : \A j \in (i + 1)..(i + s) : resp[j] \in WhiteSpace}
        Ok(s) == LET p == i + s + 1 IN p <= n /\ resp[p] # NL
        good == {s \in wsRuns : Ok(s)}
    IN  IF good = {} THEN None
        ELSE LET s == CHOOSE s \in good : \A t \in good : s >= t
                 p == i + s + 1
                 q == IndexOfFrom(resp, NL, p)
             IN  Some(<<SubSeq(resp, p, IF q = 0 THEN n ELSE q - 1)>>)

\* regex.exec(response): the match at the leftmost marker where one exists;
\* block tells the pattern with an :::END_FILE from the one-line pattern
RegexExec(resp, marker, block) ==
    LET MatchAt(i) == IF block THEN BlockMatchAt(resp, i) ELSE LineMatchAt(resp, i)
        at == {i \in 1..Len(resp) : resp[i] = marker /\ MatchAt(i) # None}
    IN  IF at = {} THEN None
        ELSE MatchAt(CHOOSE i \in at : \A j \in at : i <= j)

\* (mutant) any one-word value is taken for an action
IsActionTypeUnchecked(actionStr) == Len(actionStr) = 1

\* [...the six actions].includes(actionStr)
IsActionType(actionStr) ==
    Len(actionStr) = 1 /\ actionStr[1] \in AgentActionType

\* (mutant) the fallback condition is inverted
FallbackAppliesInverted(action, response, marker) ==
    action # "plan" /\ Includes(response, marker)

\* the structured fields, one line after the other (the for loop)
RECURSIVE ParseLines(_, _)
ParseLines(lines, acc) ==
    IF lines = <<>> THEN acc
    ELSE LET trimmed == Trim(Head(lines))
             next ==
               IF StartsWith(trimmed, "ACTION:")
               THEN LET actionStr == ToLowerCase(Trim(ReplaceFirst(trimmed, "ACTION:")))
                    IN  IF IsActionType(actionStr)
                        THEN [acc EXCEPT !.action = actionStr[1]]
                        ELSE acc
               ELSE IF StartsWith(trimmed, "TARGET:")
               THEN LET t == Trim(ReplaceFirst(trimmed, "TARGET:"))
                    IN  [acc EXCEPT !.target =
                            IF t = <<"none">> \/ t = <<>> THEN None ELSE Some(t)]
               ELSE IF StartsWith(trimmed, "REASONING:")
               THEN [acc EXCEPT !.reasoning = Trim(ReplaceFirst(trimmed, "REASONING:"))]
               ELSE acc
         IN  ParseLines(Tail(lines), next)

\* (mutant) a legacy marker is honoured whatever the structured action is
FallbackAppliesAlways(action, response, marker) == Includes(response, marker)

\* action === 'plan' && response.includes(marker)
FallbackApplies(action, response, marker) ==
    action = "plan" /\ Includes(response, marker)

\* if (separatorIndex !== -1) parsed.content = the trimmed text after '---'
SeparatorFallback(p, response, separatorIndex) ==
    IF separatorIndex # 0
    THEN [p EXCEPT !.content = Some(Trim(SliceFrom(response, separatorIndex + 1)))]
    ELSE p

\* the legacy :::CREATE_FILE block, m being the result of the regex
CreateFallback(p, response, m) ==
    IF FallbackApplies(p.action, response, ":::CREATE_FILE") /\ m # None
    THEN [action |-> "create_file",
          target |-> Some(Trim(m[1][1])),
          content |-> Some(Trim(m[1][2])),
          reasoning |-> <<"Creating file: ">> \o Trim(m[1][1])]
    ELSE p

\* the legacy :::UPDATE_FILE block, m being the result of the regex
UpdateFallback(p, response, m) ==
    IF FallbackApplies(p.action, response, ":::UPDATE_FILE") /\ m # None
    THEN [action |-> "update_file",
          target |-> Some(Trim(m[1][1])),
          content |-> Some(Trim(m[1][2])),
          reasoning |-> <<"Updating file: ">> \o Trim(m[1][1])]
    ELSE p

\* the legacy :::DELETE_FILE line, m being the result of the regex
DeleteFallback(p, response, m) ==
    IF FallbackApplies(p.action, response, ":::DELETE_FILE") /\ m # None
    THEN [p EXCEPT !.action = "delete_file",
                   !.target = Some(Trim(m[1][1])),
                   !.reasoning = <<"Deleting file: ">> \o Trim(m[1][1])]
    ELSE p

parseAgentResponse(response) ==
    DeleteFallback(
        UpdateFallback(
            CreateFallback(
                SeparatorFallback(
                    ParseLines(Split(response, NL),
                        [action |-> "plan", target |-> None,
                         reasoning |-> <<>>, content |-> None]),
                    response, IndexOf(response, "---")),
                response, RegexExec(response, ":::CREATE_FILE", TRUE)),
            response, RegexExec(response, ":::UPDATE_FILE", TRUE)),
        response, RegexExec(response, ":::DELETE_FILE", FALSE))

\* (mutant) every string counts as present
TruthyAlways(opt) == TRUE

\* a JavaScript string used as a condition: absent and '' are falsy
Truthy(opt) == opt # None /\ opt[1] # <<>>

\* --------------------------------------------------------- puterAIWrapper
\* an error raised by puter.ai.chat: an object with an optional message, an
\* optional numeric code (status / statusCode / code) and an optional type
LowBalanceWords ==
    {"balance", "quota", "exhausted", "insufficient", "subscription", "billing"}

\* (mutant) 429 is not taken as a billing status
BillingStatusCodesWithout429 == {402}

BILLING_STATUS_CODES == {402, 429}

\* LOW_BALANCE_PATTERNS.some(pattern => pattern.test(text)), on tokens
MatchesLowBalancePattern(text) ==
    \/ \E i \in 1..Len(text) : text[i] \in LowBalanceWords
    \/ \E i \in 1..Len(text) : \E j \in (i + 1)..Len(text) :
          /\ \A k \in (i + 1)..(j - 1) : text[k] \in WhiteSpace
          /\ \/ text[i] = "limit" /\ text[j] \in {"exceeded", "reached"}
             \/ text[i] = "usage" /\ text[j] = "limit"
             \/ text[i] = "payment" /\ text[j] = "required"

isLowBalanceError(error) ==
    \/ error.message # None /\ error.message[1] # <<>>
          /\ MatchesLowBalancePattern(error.message[1])
    \/ error.code # None /\ error.code[1] # 0 /\ error.code[1] \in BILLING_STATUS_CODES
    \/ error.type # None /\ error.type[1] # <<>>
          /\ MatchesLowBalancePattern(error.type[1])

LowBalanceMessage == <<"Your Puter account has no remaining AI usage.">>

\* what safeAIChat throws for an error raised by puter.ai.chat
safeAIChatError(error) ==
    IF isLowBalanceError(error)
    THEN [lowBalance |-> TRUE, message |-> Some(LowBalanceMessage)]
    ELSE [lowBalance |-> FALSE, message |-> error.message]

PlainError(msg) == [lowBalance |-> FALSE, message |-> Some(msg)]

\* ------------------------------------------------------- agentOrchestrator
\* the options of runAgentLoop (an onPause callback is supplied)
sessionId == 1
task == <<"create", SP, "teleport", SP, "command">>
mode == "agent"
modelName == "model-a"
maxSteps == MaxSteps
minCooldownMs == 2 * TickMs - 1
maxCooldownMs == 2 * TickMs

VARIABLES
    pc,                 \* where the generator is suspended
    context,            \* the working AgentContext
    resumeFromContext,  \* the caller-supplied paused context (None on a fresh run)
    startStep,
    stepNumber,
    previousMessages,   \* the local conversation history
    parsed,             \* the parsed response of the current step (None before)
    pendingDelete,      \* the file found by the listing (None when not found)
    cooldownMs,
    remaining,
    aborted,            \* abortSignal.aborted
    yielded,            \* events yielded by this invocation
    delivered,          \* events passed to onEvent by this invocation
    pauseCalls,         \* contexts passed to onPause by this invocation
    calls,              \* calls this invocation issued to the collaborators
    invocation,         \* 0 for the fresh run, n for the n-th resume
    serverMessages,     \* the conversation stored on the server
    stepsAtStart,       \* Len(context.steps) when this invocation started
    pool,               \* the completion texts the model answers with
    executed,           \* base names of the targets of the file mutations the
                        \* collaborator has performed for this task, per list
    outcomes,           \* how each collaborator call of this invocation ended
    parseInput,         \* parseAgentResponse: its argument, a completion text
    parseResult,        \* parseAgentResponse: its return value (None before)
    cooldownMin,        \* generateCooldownMs: its argument minMs
    cooldownMax,        \* generateCooldownMs: its argument maxMs
    randomK,            \* Math.random() is randomK / RandomResolution
    durationMs,         \* generateCooldownMs: its return value (None before)
    secondsLeft,        \* the countdown's loop variable i
    ticks,              \* cooldown events of the countdown so far
    promptStored,       \* makeAIRequest: the messages the server returns
    promptLoaded,       \* the previousMessages made of them (None before)
    promptSteps,        \* makeAIRequest: context.steps
    promptSent          \* the messages passed to safeAIChat (None before)

vars == <<pc, context, resumeFromContext, startStep, stepNumber,
          previousMessages, parsed, pendingDelete, cooldownMs, remaining,
          aborted, yielded, delivered, pauseCalls, calls, invocation,
          serverMessages, stepsAtStart, pool, executed, outcomes,
          parseInput, parseResult, cooldownMin, cooldownMax, randomK,
          durationMs, secondsLeft, ticks,
          promptStored, promptLoaded, promptSteps, promptSent>>

\* the variables of the loop
loop == <<pc, context, resumeFromContext, startStep, stepNumber,
          previousMessages, parsed, pendingDelete, cooldownMs, remaining,
          aborted, yielded, delivered, pauseCalls, calls, invocation,
          serverMessages, stepsAtStart, pool, executed, outcomes>>

\* the variables of the function harnesses, which the loop never touches
prompt == <<promptStored, promptLoaded, promptSteps, promptSent>>

harness == <<parseInput, parseResult, cooldownMin, cooldownMax, randomK,
             durationMs, secondsLeft, ticks, prompt>>

\* ------------------------------------------------------------- environment
RawHistory(n) ==
    [i \in 1..n |-> [role |-> IF i % 3 = 0 THEN "assistant"
                              ELSE IF i % 3 = 1 THEN "user" ELSE "system",
                     content |-> <<"msg", NumStr[i]>>]]

PomPath == <<"pom.xml">>
JavaPath == <<"src", "/", "TeleportCommand.java">>
OldPath == <<"old", "/", "Warp.java">>

\* completion texts the model may return
RespCreate ==
    <<"ACTION:", SP, "CREATE_FILE", NL, "TARGET:", SP>> \o JavaPath \o
    <<NL, "REASONING:", SP, "add", SP, "command", NL, "---", NL, "class", SP, "T", NL>>
RespCreateNoContent ==
    <<"ACTION:", SP, "create_file", NL, "TARGET:", SP>> \o PomPath \o
    <<NL, "REASONING:", SP, "add", SP, "pom">>
RespUpdate ==
    <<":::UPDATE_FILE", SP>> \o PomPath \o <<NL, "<project/>", NL, ":::END_FILE">>
RespDelete ==
    <<"ACTION:", SP, "delete_file", NL, "TARGET:", SP>> \o OldPath \o
    <<NL, "REASONING:", SP, "drop", SP, "old">>
RespAnalyze == <<"ACTION:", SP, "analyze", NL, "REASONING:", SP, "look">>
RespComplete == <<"ACTION:", SP, "COMPLETE", NL, "TARGET:", SP, "none", NL,
                  "REASONING:", SP, "all", SP, "done">>
RespProse == <<"I", SP, "will", SP, "start", NL, "ACTION:", SP, "DEPLOY">>

Responses == {RespCreate, RespCreateNoContent, RespUpdate, RespDelete,
              RespAnalyze, RespComplete, RespProse}

\* within one task the model answers from one of these pools
ResponsePools == {{RespCreate, RespProse, RespComplete},
                  {RespUpdate, RespCreateNoContent, RespComplete},
                  {RespDelete, RespAnalyze, RespComplete}}

\* parseAgentResponse on each of these texts
ParsedResponse == [r \in Responses |-> parseAgentResponse(r)]

\* errors puter.ai.chat may raise
ErrNetwork == [message |-> Some(<<"network", SP, "down">>), code |-> None, type |-> None]
ErrQuotaText == [message |-> Some(<<"usage", SP, "limit", SP, "hit">>), code |-> None, type |-> None]
ErrQuotaCode == [message |-> Some(<<"too", SP, "many">>), code |-> Some(429), type |-> None]

ChatErrors == {ErrNetwork, ErrQuotaText, ErrQuotaCode}

\* listings the file collaborator may return
Listings == {<<[id |-> 4, path |-> PomPath]>>,
             <<[id |-> 4, path |-> PomPath], [id |-> 9, path |-> OldPath]>>}

\* ------------------------------------------------------------------ events
ThinkingEvent(msg) == [type |-> "thinking", message |-> msg]
\* (mutant) a plan is reported as a thinking event
PlanningEventAsThinking(msg) == [type |-> "thinking", message |-> msg]

PlanningEvent(msg) == [type |-> "planning", message |-> msg]
FileEvent(kind, path) == [type |-> kind, path |-> path, fileName |-> getFileName(path)]
StepCompleteEvent(sn, action) == [type |-> "step_complete", stepNumber |-> sn, action |-> action]
CooldownEvent(ms, rem) == [type |-> "cooldown", durationMs |-> ms, remaining |-> rem]
\* (mutant) the complete event carries no file names
CompleteEventWithoutFiles(summary, ctx) ==
    [type |-> "complete", summary |-> summary,
     filesCreated |-> <<>>, filesUpdated |-> <<>>, filesDeleted |-> <<>>]

CompleteEvent(summary, ctx) ==
    [type |-> "complete", summary |-> summary,
     filesCreated |-> ctx.filesCreated,
     filesUpdated |-> ctx.filesUpdated,
     filesDeleted |-> ctx.filesDeleted]
\* (mutant) every error event is reported as recoverable
ErrorEventAlwaysRecoverable(msg, recoverable) ==
    [type |-> "error", message |-> msg, recoverable |-> TRUE]

ErrorEvent(msg, recoverable) == [type |-> "error", message |-> msg, recoverable |-> recoverable]
\* (mutant) the paused event names the last recorded step
PausedEventPreviousStep(sn) ==
    [type |-> "paused", reason |-> "low_balance", stepNumber |-> sn - 1]
PausedEvent(sn) == [type |-> "paused", reason |-> "low_balance", stepNumber |-> sn]
ResumingEvent(sn) == [type |-> "resuming", stepNumber |-> sn]
AuthRequiredEvent == [type |-> "auth_required"]

BudgetSummary == <<"Reached maximum steps (", NumStr[maxSteps], "). Task may be incomplete.">>

\* ----------------------------------------------------------------- context
Has(c, f) == f \in DOMAIN c

FreshContext ==
    [sessionId |-> sessionId, task |-> task, mode |-> mode, modelName |-> modelName,
     steps |-> <<>>, filesCreated |-> <<>>, filesUpdated |-> <<>>,
     filesDeleted |-> <<>>, isComplete |-> FALSE]

\* (mutant) the resumed context keeps the pause reason
ResumedContextKeepsReason(r) == [isPaused |-> FALSE] @@ r

\* { ...resumeFromContext, isPaused: false, pauseReason: null }
ResumedContext(r) == [isPaused |-> FALSE, pauseReason |-> None] @@ r

\* (mutant) a resumed run starts again at step 1
StartStepFirst(r) == 1

\* resumeFromContext?.pausedAtStep ?? 1
StartStep(r) == IF r # None /\ Has(r[1], "pausedAtStep") THEN r[1].pausedAtStep ELSE 1

\* (mutant) the snapshot is not restored
InitialMessagesEmpty(r) == <<>>

\* resumeFromContext?.previousMessages || []
InitialMessages(r) ==
    IF r # None /\ Has(r[1], "previousMessages") THEN r[1].previousMessages ELSE <<>>

\* messages.slice(-20).map(...)
LoadedMessages(messages) ==
    LET cut == SliceLast(messages, HistoryLoadCap)
    IN  [i \in 1..Len(cut) |->
            [role |-> IF cut[i].role = "assistant" THEN "assistant" ELSE "user",
             content |-> cut[i].content]]

\* (mutant) the pause is recorded for the step after the failed one
PausedContextNextStep(ctx, sn, msgs) ==
    [isPaused |-> TRUE, pauseReason |-> Some("low_balance"),
     pausedAtStep |-> sn + 1, previousMessages |-> msgs] @@ ctx

\* the four assignments of the pause branch
PausedContext(ctx, sn, msgs) ==
    [isPaused |-> TRUE, pauseReason |-> Some("low_balance"),
     pausedAtStep |-> sn, previousMessages |-> msgs] @@ ctx

\* (mutant) steps are numbered from zero
StepRecordZeroBased(sn, p) ==
    [stepNumber |-> sn - 1, action |-> p.action, target |-> p.target,
     reasoning |-> p.reasoning, content |-> p.content]

StepRecord(sn, p) ==
    [stepNumber |-> sn, action |-> p.action, target |-> p.target,
     reasoning |-> p.reasoning, content |-> p.content]

\* (mutant) the whole conversation is sent
ChatMessagesWholeHistory(ctx, systemPrompt, msgs) ==
    <<[role |-> "system", content |-> systemPrompt]>>
        \o msgs
        \o SliceLast([i \in 1..Len(ctx.steps) |->
                [role |-> "assistant",
                 content |-> <<"[Step ", NumStr[ctx.steps[i].stepNumber], "] ",
                               ctx.steps[i].action, ": ">> \o ctx.steps[i].reasoning]],
              StepPromptCap)
        \o <<[role |-> "user", content |-> ctx.task]>>

\* the messages makeAIRequest sends
ChatMessages(ctx, systemPrompt, msgs) ==
    LET stepHistory ==
          [i \in 1..Len(ctx.steps) |->
              [role |-> "assistant",
               content |-> <<"[Step ", NumStr[ctx.steps[i].stepNumber], "] ",
                             ctx.steps[i].action, ": ">> \o ctx.steps[i].reasoning]]
    IN  <<[role |-> "system", content |-> systemPrompt]>>
        \o SliceLast(msgs, HistoryPromptCap)
        \o SliceLast(stepHistory, StepPromptCap)
        \o <<[role |-> "user", content |-> ctx.task]>>

\* basePrompt + agenticConstraints, as far as it depends on the arguments
SystemPrompt(sn, created, updated) ==
    <<"base", "STEP ", NumStr[sn], "created:">> \o created
        \o <<"updated:">> \o updated

\* (mutant) Math.round in the place of Math.floor
generateCooldownMsRounded(minMs, maxMs, k) ==
    ((2 * k * (maxMs - minMs + 1) + RandomResolution) \div (2 * RandomResolution))
        + minMs

\* Math.floor(Math.random() * (maxMs - minMs + 1)) + minMs, random = k / RandomResolution
generateCooldownMs(minMs, maxMs, k) ==
    ((k * (maxMs - minMs + 1)) \div RandomResolution) + minMs

\* (mutant) the loop runs one step past the budget
LoopConditionPastBudget(sn, ctx) == sn <= maxSteps + 1 /\ ~ctx.isComplete

\* (mutant) the loop does not stop on completion
LoopConditionIgnoresComplete(sn, ctx) == sn <= maxSteps

\* the for statement's condition
LoopCondition(sn, ctx) == sn <= maxSteps /\ ~ctx.isComplete

\* (mutant) the cooldown also follows the complete action
NeedsCooldownAfterComplete(sn, ctx) == sn < maxSteps

\* the condition of the cooldown
NeedsCooldown(sn, ctx) == ~ctx.isComplete /\ sn < maxSteps

\* array.push on a list the working context shares with the supplied one
Pushed(c, field, v) == [c EXCEPT ![field] = Append(@, v)]

\* a call issued to a collaborator, with the state of the signal at its start
Call(kind, sn, args) ==
    [kind |-> kind, stepNumber |-> sn, aborted |-> aborted, args |-> args]

\* the end of a collaborator call: ok or raised, the classification of the
\* raised error, the signal at that moment, and how many events and calls the
\* invocation had produced by then
Outcome(kind, ok, lowBalance) ==
    [kind |-> kind, stepNumber |-> stepNumber, ok |-> ok, lowBalance |-> lowBalance, aborted |-> aborted,
     at |-> Len(yielded), call |-> Len(calls),
     action |-> IF parsed = None THEN "" ELSE parsed[1].action,
     path |-> IF parsed = None \/ parsed[1].target = None THEN <<>>
              ELSE parsed[1].target[1]]

\* the supplied context shares its four lists with the working context
Aliased(r, ctx) ==
    IF r = None THEN None
    ELSE Some([r[1] EXCEPT !.steps = ctx.steps,
                           !.filesCreated = ctx.filesCreated,
                           !.filesUpdated = ctx.filesUpdated,
                           !.filesDeleted = ctx.filesDeleted])

Last(s) == s[Len(s)]

\* yield ev
Yield(ev, next) == yielded' = Append(yielded, ev) /\ pc' = next

\* (mutant) the callback is passed the first event of the run again
DeliverStale == delivered' = Append(delivered, yielded[1])

\* onEvent(ev), run when the consumer asks for the next event
Deliver == delivered' = Append(delivered, Last(yielded))

\* the head of the for statement for stepNumber = sn, up to the next
\* suspension point; sets pc, stepNumber, yielded and calls
EnterIteration(sn, ctx) ==
    /\ stepNumber' = sn
    /\ IF LoopCondition(sn, ctx)
       THEN IF aborted
            THEN /\ Yield(ErrorEvent(<<"Execution cancelled">>, FALSE), "y_cancelled")
                 /\ calls' = calls
            ELSE /\ pc' = "await_prompt"
                 /\ yielded' = yielded
                 /\ calls' = Append(calls,
                        Call("prompt", sn, <<ctx.filesCreated, ctx.filesUpdated>>))
       ELSE /\ calls' = calls
            /\ IF ~ctx.isComplete
               THEN Yield(CompleteEvent(BudgetSummary, ctx), "y_final")
               ELSE pc' = "done" /\ yielded' = yielded

\* (mutant) the failed step is attempted again
NextStepAfterErrorRetry(sn) == sn

\* the step after a recoverable error
NextStepAfterError(sn) == sn + 1

\* (mutant) the error leaves the generator
CatchRethrows(error) ==
    /\ context' = context
    /\ yielded' = yielded
    /\ pc' = "done"

\* the catch block up to its first yield; sets pc, context and yielded
Catch(error) ==
    IF error.lowBalance
    THEN /\ context' = PausedContext(context, stepNumber, previousMessages)
         /\ Yield(AuthRequiredEvent, "y_auth")
    ELSE /\ context' = context
         /\ Yield(ErrorEvent(IF Truthy(error.message) THEN error.message[1]
                             ELSE <<"Unknown error">>, TRUE), "y_error")

\* the loop before the first next()
LoopIdle ==
    /\ pc = "idle"
    /\ context = FreshContext
    /\ resumeFromContext = None
    /\ startStep = 1
    /\ stepNumber = 0
    /\ previousMessages = <<>>
    /\ parsed = None
    /\ pendingDelete = None
    /\ cooldownMs = 0
    /\ remaining = 0
    /\ aborted = FALSE
    /\ yielded = <<>>
    /\ delivered = <<>>
    /\ pauseCalls = <<>>
    /\ calls = <<>>
    /\ invocation = 0
    /\ serverMessages = RawHistory(HistoryLen)
    /\ stepsAtStart = 0
    /\ pool \in ResponsePools
    /\ executed = [filesCreated |-> <<>>, filesUpdated |-> <<>>, filesDeleted |-> <<>>]
    /\ outcomes = <<>>

\* makeAIRequest not yet called on its own
PromptIdle ==
    /\ promptStored = <<>>
    /\ promptLoaded = None
    /\ promptSteps = <<>>
    /\ promptSent = None

\* the function harnesses at rest
HarnessIdle ==
    /\ PromptIdle
    /\ parseInput = <<>>
    /\ parseResult = None
    /\ cooldownMin = minCooldownMs
    /\ cooldownMax = maxCooldownMs
    /\ randomK = 0
    /\ durationMs = None
    /\ secondsLeft = 0
    /\ ticks = 0

Init == LoopIdle /\ HarnessIdle

\* the first next(): the context is set up and the first event is yielded
Start ==
    /\ UNCHANGED harness
    /\ pc = "idle"
    /\ UNCHANGED <<pool, executed, outcomes>>
    /\ context' = IF resumeFromContext # None
                  THEN ResumedContext(resumeFromContext[1]) ELSE FreshContext
    /\ startStep' = StartStep(resumeFromContext)
    /\ stepsAtStart' = Len(context'.steps)
    /\ Yield(IF resumeFromContext # None
             THEN ResumingEvent(StartStep(resumeFromContext))
             ELSE ThinkingEvent(<<"Analyzing your request...">>), "y_first")
    /\ UNCHANGED <<resumeFromContext, stepNumber, previousMessages, parsed,
                   pendingDelete, cooldownMs, remaining, aborted, delivered,
                   pauseCalls, calls, invocation, serverMessages>>

\* after the first event: the history is restored or its fetch is started
AfterFirstEvent ==
    /\ UNCHANGED harness
    /\ pc = "y_first"
    /\ UNCHANGED <<pool, executed, outcomes>>
    /\ Deliver
    /\ IF resumeFromContext # None
       THEN /\ previousMessages' = InitialMessages(resumeFromContext)
            /\ EnterIteration(startStep, context)
       ELSE /\ previousMessages' = <<>>
            /\ pc' = "await_messages"
            /\ calls' = Append(calls, Call("messages", 0, <<>>))
            /\ UNCHANGED <<stepNumber, yielded>>
    /\ UNCHANGED <<context, resumeFromContext, startStep, parsed, pendingDelete,
                   cooldownMs, remaining, aborted, pauseCalls, invocation,
                   serverMessages, stepsAtStart>>

\* (mutant) a failed fetch is handled like a failure inside the loop's try
MessagesFetchedUncaught ==
    /\ UNCHANGED harness
    /\ pc = "await_messages"
    /\ UNCHANGED <<pool, executed>>
    /\ \E ok \in BOOLEAN :
       /\ outcomes' = Append(outcomes, Outcome("messages", ok, FALSE))
       /\ IF ok
          THEN /\ previousMessages' = LoadedMessages(serverMessages)
               /\ context' = [previousMessages |-> previousMessages'] @@ context
               /\ EnterIteration(startStep, context')
          ELSE /\ previousMessages' = previousMessages
               /\ Catch(PlainError(<<"500: messages">>))
               /\ UNCHANGED <<stepNumber, calls>>
    /\ UNCHANGED <<resumeFromContext, startStep, parsed, pendingDelete, cooldownMs,
                   remaining, aborted, delivered, pauseCalls, invocation,
                   serverMessages, stepsAtStart>>

\* GET messages returns or fails
MessagesFetched ==
    /\ UNCHANGED harness
    /\ pc = "await_messages"
    /\ UNCHANGED <<pool, executed>>
    /\ \E ok \in BOOLEAN :
       /\ outcomes' = Append(outcomes, Outcome("messages", ok, FALSE))
       /\
         LET msgs == IF ok THEN LoadedMessages(serverMessages) ELSE previousMessages
             ctx == IF ok THEN [previousMessages |-> msgs] @@ context ELSE context
         IN  /\ previousMessages' = msgs
             /\ context' = ctx
             /\ EnterIteration(startStep, ctx)
    /\ UNCHANGED <<resumeFromContext, startStep, parsed, pendingDelete, cooldownMs,
                   remaining, aborted, delivered, pauseCalls, invocation,
                   serverMessages, stepsAtStart>>

\* after the cancellation error event: return
CancelledDelivered ==
    /\ UNCHANGED harness
    /\ pc = "y_cancelled"
    /\ UNCHANGED <<pool, executed, outcomes>>
    /\ Deliver
    /\ pc' = "done"
    /\ UNCHANGED <<context, resumeFromContext, startStep, stepNumber,
                   previousMessages, parsed, pendingDelete, cooldownMs, remaining,
                   aborted, yielded, pauseCalls, calls, invocation,
                   serverMessages, stepsAtStart>>

\* buildAgenticSystemPrompt returns or fails; makeAIRequest starts the chat call
PromptBuilt ==
    /\ UNCHANGED harness
    /\ pc = "await_prompt"
    /\ UNCHANGED <<pool, executed>>
    /\ \E outcome \in {"ok", "prompt_failed", "no_puter"} :
       /\ outcomes' = Append(outcomes,
                IF outcome = "no_puter" THEN Outcome("chat", FALSE, FALSE)
                ELSE Outcome("prompt", outcome = "ok", FALSE))
       /\
         IF outcome = "ok"
         THEN /\ pc' = "await_chat"
              /\ calls' = Append(calls, Call("chat", stepNumber,
                     ChatMessages(context,
                         SystemPrompt(stepNumber, context.filesCreated,
                                      context.filesUpdated),
                         previousMessages)))
              /\ UNCHANGED <<context, yielded>>
         ELSE /\ Catch(PlainError(IF outcome = "prompt_failed"
                                  THEN <<"500: system-prompt">>
                                  ELSE <<"Puter.js is not available.">>))
              /\ UNCHANGED calls
    /\ UNCHANGED <<resumeFromContext, startStep, stepNumber, previousMessages,
                   parsed, pendingDelete, cooldownMs, remaining, aborted,
                   delivered, pauseCalls, invocation, serverMessages, stepsAtStart>>

\* the step is recorded and the action's first event is yielded
Dispatch(p) ==
    LET pushed == Pushed(context, "steps", StepRecord(stepNumber, p))
        ctx == IF p.action = "complete"
               THEN [pushed EXCEPT !.isComplete = TRUE] ELSE pushed
    IN  /\ parsed' = Some(p)
        /\ context' = ctx
        /\ resumeFromContext' = Aliased(resumeFromContext, ctx)
        /\ CASE p.action = "plan" ->
                  Yield(PlanningEvent(p.reasoning), "y_action")
             [] p.action \in {"create_file", "update_file"} ->
                  IF Truthy(p.target) /\ Truthy(p.content)
                  THEN Yield(FileEvent(IF p.action = "create_file"
                                       THEN "file_creating" ELSE "file_updating",
                                       p.target[1]), "y_file")
                  ELSE Yield(StepCompleteEvent(stepNumber, p.action), "y_step_complete")
             [] p.action = "delete_file" ->
                  IF Truthy(p.target)
                  THEN Yield(FileEvent("file_deleting", p.target[1]), "y_file")
                  ELSE Yield(StepCompleteEvent(stepNumber, p.action), "y_step_complete")
             [] p.action = "complete" ->
                  Yield(CompleteEvent(p.reasoning, ctx), "y_action")
             [] OTHER ->
                  Yield(ThinkingEvent(p.reasoning), "y_action")

\* puter.ai.chat returns a completion or raises
ChatReturned ==
    /\ UNCHANGED harness
    /\ pc = "await_chat"
    /\ UNCHANGED <<pool, executed>>
    /\ \/ \E response \in pool :
          /\ outcomes' = Append(outcomes, Outcome("chat", TRUE, FALSE))
          /\
            IF aborted
            THEN /\ Catch(PlainError(<<"Aborted">>))
                 /\ UNCHANGED <<resumeFromContext, parsed>>
            ELSE Dispatch(ParsedResponse[response])
       \/ \E error \in ChatErrors :
            /\ outcomes' = Append(outcomes,
                   Outcome("chat", FALSE, isLowBalanceError(error)))
            /\ Catch(safeAIChatError(error))
            /\ UNCHANGED <<resumeFromContext, parsed>>
    /\ UNCHANGED <<startStep, stepNumber, previousMessages, pendingDelete,
                   cooldownMs, remaining, aborted, delivered, pauseCalls, calls,
                   invocation, serverMessages, stepsAtStart>>

\* the request body of the upsert: content || ''
UpsertArgs(path, content) ==
    [name |-> getFileName(path), path |-> path,
     content |-> IF Truthy(content) THEN content[1] ELSE <<>>, isFolder |-> FALSE]

\* (mutant) the first listed file is taken, whatever its path
FindFileFirst(files, path) == IF files = <<>> THEN None ELSE Some(files[1])

\* files.find(f => f.path === path)
FindFile(files, path) ==
    LET hits == {i \in 1..Len(files) : files[i].path = path}
    IN  IF hits = {} THEN None
        ELSE Some(files[CHOOSE i \in hits : \A j \in hits : i <= j])

TrackingList(action) ==
    CASE action = "create_file" -> "filesCreated"
      [] action = "update_file" -> "filesUpdated"
      [] action = "delete_file" -> "filesDeleted"

\* (mutant) a created file is reported as updated
DoneEventTypeMixedUp(action) ==
    CASE action = "create_file" -> "file_updated"
      [] action = "update_file" -> "file_updated"
      [] action = "delete_file" -> "file_deleted"

DoneEventType(action) ==
    CASE action = "create_file" -> "file_created"
      [] action = "update_file" -> "file_updated"
      [] action = "delete_file" -> "file_deleted"

\* the collaborator has performed the mutation of the current step
Performed(e) ==
    [e EXCEPT ![TrackingList(parsed[1].action)] =
        Append(@, getFileName(parsed[1].target[1]))]

\* executeFileOperation returned: the name is pushed and the *ed event yielded;
\* sets context, resumeFromContext, pc and yielded
FileOperationDone ==
    LET p == parsed[1]
        ctx == Pushed(context, TrackingList(p.action), getFileName(p.target[1]))
    IN  /\ context' = ctx
        /\ resumeFromContext' = Aliased(resumeFromContext, ctx)
        /\ Yield(FileEvent(DoneEventType(p.action), p.target[1]), "y_action")

\* after file_creating / file_updating / file_deleting: executeFileOperation
\* issues its first request
FileEventDelivered ==
    /\ UNCHANGED harness
    /\ pc = "y_file"
    /\ UNCHANGED <<pool, executed, outcomes>>
    /\ Deliver
    /\ LET p == parsed[1]
       IN  IF p.action = "delete_file"
           THEN /\ pc' = "await_list"
                /\ calls' = Append(calls, Call("list", stepNumber, <<>>))
           ELSE /\ pc' = "await_upsert"
                /\ calls' = Append(calls, Call("upsert", stepNumber,
                                               UpsertArgs(p.target[1], p.content)))
    /\ UNCHANGED <<context, resumeFromContext, startStep, stepNumber,
                   previousMessages, parsed, pendingDelete, cooldownMs, remaining,
                   aborted, yielded, pauseCalls, invocation, serverMessages,
                   stepsAtStart>>

\* POST files returns or fails
UpsertDone ==
    /\ UNCHANGED harness
    /\ pc = "await_upsert"
    /\ UNCHANGED pool
    /\ \E ok \in BOOLEAN :
       /\ executed' = IF ok THEN Performed(executed) ELSE executed
       /\ outcomes' = Append(outcomes, Outcome("upsert", ok, FALSE))
       /\
         IF ok THEN FileOperationDone
         ELSE Catch(PlainError(<<"500: files">>)) /\ UNCHANGED resumeFromContext
    /\ UNCHANGED <<startStep, stepNumber, previousMessages, parsed, pendingDelete,
                   cooldownMs, remaining, aborted, delivered, pauseCalls, calls,
                   invocation, serverMessages, stepsAtStart>>

\* GET files returns a listing or fails
ListDone ==
    /\ UNCHANGED harness
    /\ pc = "await_list"
    /\ UNCHANGED <<pool, executed>>
    /\ \/ \E files \in Listings :
          /\ outcomes' = Append(outcomes, Outcome("list", TRUE, FALSE))
          /\
            LET file == FindFile(files, parsed[1].target[1])
            IN  IF file # None
                THEN /\ pendingDelete' = file
                     /\ pc' = "await_delete"
                     /\ calls' = Append(calls, Call("delete", stepNumber, file[1].id))
                     /\ UNCHANGED <<context, resumeFromContext, yielded>>
                ELSE /\ FileOperationDone
                     /\ UNCHANGED <<pendingDelete, calls>>
       \/ /\ outcomes' = Append(outcomes, Outcome("list", FALSE, FALSE))
          /\ Catch(PlainError(<<"500: files">>))
          /\ UNCHANGED <<resumeFromContext, pendingDelete, calls>>
    /\ UNCHANGED <<startStep, stepNumber, previousMessages, parsed, cooldownMs,
                   remaining, aborted, delivered, pauseCalls, invocation,
                   serverMessages, stepsAtStart>>

\* DELETE files/id returns or fails
DeleteDone ==
    /\ UNCHANGED harness
    /\ pc = "await_delete"
    /\ UNCHANGED pool
    /\ \E ok \in BOOLEAN :
       /\ executed' = IF ok THEN Performed(executed) ELSE executed
       /\ outcomes' = Append(outcomes, Outcome("delete", ok, FALSE))
       /\
         IF ok THEN FileOperationDone
         ELSE Catch(PlainError(<<"500: files">>)) /\ UNCHANGED resumeFromContext
    /\ UNCHANGED <<startStep, stepNumber, previousMessages, parsed, pendingDelete,
                   cooldownMs, remaining, aborted, delivered, pauseCalls, calls,
                   invocation, serverMessages, stepsAtStart>>

\* after the action's last event: step_complete is yielded
ActionEventDelivered ==
    /\ UNCHANGED harness
    /\ pc = "y_action"
    /\ UNCHANGED <<pool, executed, outcomes>>
    /\ Deliver
    /\ Yield(StepCompleteEvent(stepNumber, parsed[1].action), "y_step_complete")
    /\ UNCHANGED <<context, resumeFromContext, startStep, stepNumber,
                   previousMessages, parsed, pendingDelete, cooldownMs, remaining,
                   aborted, pauseCalls, calls, invocation, serverMessages,
                   stepsAtStart>>

\* after step_complete: the cooldown starts, or the next iteration does
StepCompleteDelivered ==
    /\ UNCHANGED harness
    /\ pc = "y_step_complete"
    /\ UNCHANGED <<pool, executed, outcomes>>
    /\ Deliver
    /\ IF NeedsCooldown(stepNumber, context)
       THEN \E k \in 0..(RandomResolution - 1) :
              LET ms == generateCooldownMs(minCooldownMs, maxCooldownMs, k)
                  rem == CeilDiv(ms, TickMs)
              IN  /\ cooldownMs' = ms
                  /\ remaining' = rem
                  /\ IF rem > 0
                     THEN /\ Yield(CooldownEvent(ms, rem), "y_cooldown")
                          /\ UNCHANGED <<stepNumber, calls>>
                     ELSE EnterIteration(stepNumber + 1, context)
       ELSE /\ EnterIteration(stepNumber + 1, context)
            /\ UNCHANGED <<cooldownMs, remaining>>
    /\ UNCHANGED <<context, resumeFromContext, startStep, previousMessages, parsed,
                   pendingDelete, aborted, pauseCalls, invocation, serverMessages,
                   stepsAtStart>>

\* after a cooldown event: the one-second timer is started
CooldownDelivered ==
    /\ UNCHANGED harness
    /\ pc = "y_cooldown"
    /\ UNCHANGED <<pool, executed, outcomes>>
    /\ Deliver
    /\ pc' = "await_tick"
    /\ UNCHANGED <<context, resumeFromContext, startStep, stepNumber,
                   previousMessages, parsed, pendingDelete, cooldownMs, remaining,
                   aborted, yielded, pauseCalls, calls, invocation,
                   serverMessages, stepsAtStart>>

\* the timer fires: return when cancelled, else the next tick or iteration
TickElapsed ==
    /\ UNCHANGED harness
    /\ pc = "await_tick"
    /\ UNCHANGED <<pool, executed, outcomes>>
    /\ IF aborted
       THEN /\ pc' = "done"
            /\ UNCHANGED <<stepNumber, remaining, yielded, calls>>
       ELSE /\ remaining' = remaining - 1
            /\ IF remaining - 1 > 0
               THEN /\ Yield(CooldownEvent(cooldownMs, remaining - 1), "y_cooldown")
                    /\ UNCHANGED <<stepNumber, calls>>
               ELSE EnterIteration(stepNumber + 1, context)
    /\ UNCHANGED <<context, resumeFromContext, startStep, previousMessages, parsed,
                   pendingDelete, cooldownMs, aborted, delivered, pauseCalls,
                   invocation, serverMessages, stepsAtStart>>

\* after auth_required: paused is yielded
AuthRequiredDelivered ==
    /\ UNCHANGED harness
    /\ pc = "y_auth"
    /\ UNCHANGED <<pool, executed, outcomes>>
    /\ Deliver
    /\ Yield(PausedEvent(stepNumber), "y_paused")
    /\ UNCHANGED <<context, resumeFromContext, startStep, stepNumber,
                   previousMessages, parsed, pendingDelete, cooldownMs, remaining,
                   aborted, pauseCalls, calls, invocation, serverMessages,
                   stepsAtStart>>

\* after paused: onPause(context), return
PausedDelivered ==
    /\ UNCHANGED harness
    /\ pc = "y_paused"
    /\ UNCHANGED <<pool, executed, outcomes>>
    /\ Deliver
    /\ pauseCalls' = Append(pauseCalls, context)
    /\ pc' = "done"
    /\ UNCHANGED <<context, resumeFromContext, startStep, stepNumber,
                   previousMessages, parsed, pendingDelete, cooldownMs, remaining,
                   aborted, yielded, calls, invocation, serverMessages,
                   stepsAtStart>>

\* after a recoverable error event: the next iteration
ErrorDelivered ==
    /\ UNCHANGED harness
    /\ pc = "y_error"
    /\ UNCHANGED <<pool, executed, outcomes>>
    /\ Deliver
    /\ EnterIteration(NextStepAfterError(stepNumber), context)
    /\ UNCHANGED <<context, resumeFromContext, startStep, previousMessages, parsed,
                   pendingDelete, cooldownMs, remaining, aborted, pauseCalls,
                   invocation, serverMessages, stepsAtStart>>

\* after the step-budget complete event: the generator ends
FinalDelivered ==
    /\ UNCHANGED harness
    /\ pc = "y_final"
    /\ UNCHANGED <<pool, executed, outcomes>>
    /\ Deliver
    /\ pc' = "done"
    /\ UNCHANGED <<context, resumeFromContext, startStep, stepNumber,
                   previousMessages, parsed, pendingDelete, cooldownMs, remaining,
                   aborted, yielded, pauseCalls, calls, invocation,
                   serverMessages, stepsAtStart>>

\* the caller sets the cancellation signal
Abort ==
    /\ UNCHANGED harness
    /\ pc # "done"
    /\ UNCHANGED <<pool, executed, outcomes>>
    /\ ~aborted
    /\ aborted' = TRUE
    /\ UNCHANGED <<pc, context, resumeFromContext, startStep, stepNumber,
                   previousMessages, parsed, pendingDelete, cooldownMs, remaining,
                   yielded, delivered, pauseCalls, calls, invocation,
                   serverMessages, stepsAtStart>>

\* the caller re-invokes the loop with the context its pause callback received
Resume ==
    /\ UNCHANGED harness
    /\ pc = "done"
    /\ pauseCalls # <<>>
    /\ invocation < MaxResumes
    /\ resumeFromContext' = Some(Last(pauseCalls))
    /\ invocation' = invocation + 1
    /\ pc' = "idle"
    /\ stepNumber' = 0
    /\ previousMessages' = <<>>
    /\ parsed' = None
    /\ pendingDelete' = None
    /\ aborted' = FALSE
    /\ yielded' = <<>>
    /\ delivered' = <<>>
    /\ pauseCalls' = <<>>
    /\ calls' = <<>>
    /\ outcomes' = <<>>
    /\ UNCHANGED <<context, startStep, cooldownMs, remaining, serverMessages,
                   stepsAtStart, pool, executed>>

Next ==
    \/ Start
    \/ AfterFirstEvent
    \/ MessagesFetched
    \/ CancelledDelivered
    \/ PromptBuilt
    \/ ChatReturned
    \/ FileEventDelivered
    \/ UpsertDone
    \/ ListDone
    \/ DeleteDone
    \/ ActionEventDelivered
    \/ StepCompleteDelivered
    \/ CooldownDelivered
    \/ TickElapsed
    \/ AuthRequiredDelivered
    \/ PausedDelivered
    \/ ErrorDelivered
    \/ FinalDelivered
    \/ Abort
    \/ Resume

Spec == Init /\ [][Next]_vars

\* ------------------------------------------------------ observation helpers
Running == pc \notin {"idle", "done"}

IsPausedTrue(c) == Has(c, "isPaused") /\ c.isPaused

PauseReasonSet(c) == Has(c, "pauseReason") /\ c.pauseReason # None

\* the outcomes and calls of the current invocation
MyOutcomes == 1..Len(outcomes)
MyCalls(kind) == {i \in 1..Len(calls) : calls[i].kind = kind}

\* the chat calls of this invocation that failed with a quota-exhaustion error
QuotaFailures ==
    {i \in MyOutcomes : outcomes[i].kind = "chat" /\ ~outcomes[i].ok
                        /\ outcomes[i].lowBalance}

\* the collaborator calls of this invocation that failed, whatever the error
Failures == {i \in MyOutcomes : ~outcomes[i].ok}

\* the chat calls of this invocation that returned a completion to the loop
\* while the cancellation signal was not set
Completions(sn) ==
    {i \in MyOutcomes : outcomes[i].kind = "chat" /\ outcomes[i].ok
                        /\ ~outcomes[i].aborted /\ outcomes[i].stepNumber = sn}

StepsNumbered(steps, k) == {i \in 1..Len(steps) : steps[i].stepNumber = k}

\* the steps this invocation appended
NewSteps == SubSeq(context.steps, stepsAtStart + 1, Len(context.steps))

EventsAfter(n) == SubSeq(yielded, n + 1, Len(yielded))

IsPrefix(s, t) == Len(s) <= Len(t) /\ SubSeq(t, 1, Len(s)) = s

\* ------------------------------------------------------------------ claims

\* C1: when the AI chat call of step k fails with a quota-exhaustion error,
\* from then on until the run has ended the Context has isPaused = true,
\* pauseReason = low_balance and pausedAtStep = k, and Context.steps holds no
\* Step numbered k.
C1_QuotaErrorPausesAtStep ==
    \A i \in QuotaFailures :
        LET k == outcomes[i].stepNumber
        IN  /\ IsPausedTrue(context)
            /\ PauseReasonSet(context) /\ context.pauseReason = Some("low_balance")
            /\ Has(context, "pausedAtStep") /\ context.pausedAtStep = k
            /\ StepsNumbered(context.steps, k) = {}

\* a run that recorded step 1 and ended after a quota error at step 2
C1_Witness ==
    /\ pc = "done"
    /\ \E i \in QuotaFailures : outcomes[i].stepNumber = 2
    /\ Len(context.steps) = 1

\* C2: the events emitted for a quota failure at step k are exactly
\* auth_required, paused(low_balance, k); the pause callback is invoked once,
\* when the run ends, with the Context whose pausedAtStep = k; no collaborator
\* call is issued after the failure and no event follows the paused event.
C2_PauseEventsAndCallback ==
    \A i \in QuotaFailures :
        LET k == outcomes[i].stepNumber
            expected == <<[type |-> "auth_required"],
                          [type |-> "paused", reason |-> "low_balance",
                           stepNumber |-> k]>>
        IN  /\ IsPrefix(EventsAfter(outcomes[i].at), expected)
            /\ IsPrefix(delivered, yielded)
            /\ Len(calls) = outcomes[i].call
            /\ Len(pauseCalls) <= 1
            /\ pc = "done" =>
                 /\ EventsAfter(outcomes[i].at) = expected
                 /\ delivered = yielded
                 /\ Len(pauseCalls) = 1
                 /\ pauseCalls[1] = context
                 /\ pauseCalls[1].pausedAtStep = k
            /\ pc # "done" => pauseCalls = <<>>

\* a run that ended after a quota error at step 2 and called onPause
C2_Witness ==
    /\ pc = "done"
    /\ \E i \in QuotaFailures : outcomes[i].stepNumber = 2
    /\ Len(pauseCalls) = 1
    /\ Len(yielded) > 2

\* C3 (as stated): a resume call adds exactly one new Step numbered
\* k = pausedAtStep, never zero.
C3_ResumeAddsExactlyOneStep ==
    (invocation > 0 /\ pc = "done") =>
        Cardinality(StepsNumbered(NewSteps, startStep)) = 1

\* C3 (amended): a resumed invocation starts its first iteration under
\* stepNumber k = pausedAtStep; it adds at most one Step numbered k, exactly
\* one if and only if the AI call of step k returned a completion while the
\* cancellation signal was not set; Context.steps never holds two Steps
\* numbered k.
C3_ResumeRetriesStepOnce ==
    (invocation > 0 /\ pc # "idle") =>
        LET k == resumeFromContext[1].pausedAtStep
        IN  /\ \A i \in MyCalls("prompt") \cup MyCalls("chat") :
                  calls[i].stepNumber >= k
            /\ (MyCalls("prompt") # {}) =>
                  \E i \in MyCalls("prompt") :
                      /\ calls[i].stepNumber = k
                      /\ \A j \in MyCalls("prompt") : i <= j
            /\ Cardinality(StepsNumbered(NewSteps, k)) <= 1
            /\ Cardinality(StepsNumbered(context.steps, k)) <= 1
            /\ (StepsNumbered(NewSteps, k) # {}) <=> (Completions(k) # {})

\* a resumed run, paused at step 2, that recorded step 2 and ended
C3_Witness ==
    /\ invocation > 0
    /\ pc = "done"
    /\ resumeFromContext[1].pausedAtStep = 2
    /\ Cardinality(StepsNumbered(NewSteps, 2)) = 1
    /\ Len(context.steps) = 2

\* C4: in a resumed invocation, until it pauses again, the working Context
\* has isPaused = false and pauseReason = none; startStep = pausedAtStep;
\* the message history is not fetched; every AI call carries the last
\* messages of the previousMessages snapshot of the supplied Context; and
\* the first event is resuming(pausedAtStep).
C4_ResumeRestoresState ==
    (invocation > 0 /\ pc # "idle") =>
        LET r == resumeFromContext[1]
            snapshot == r.previousMessages
            n == Len(SliceLast(snapshot, HistoryPromptCap))
        IN  /\ QuotaFailures = {} =>
                  /\ Has(context, "isPaused") /\ context.isPaused = FALSE
                  /\ Has(context, "pauseReason") /\ context.pauseReason = None
            /\ startStep = r.pausedAtStep
            /\ MyCalls("messages") = {}
            /\ yielded[1] = [type |-> "resuming", stepNumber |-> r.pausedAtStep]
            /\ \A i \in 1..Len(yielded) : yielded[i].type = "thinking" => i > 1
            /\ \A i \in MyCalls("chat") :
                  /\ Len(calls[i].args) >= n + 2
                  /\ SubSeq(calls[i].args, 2, n + 1) = SliceLast(snapshot, HistoryPromptCap)
                  /\ calls[i].args[n + 2].role = "assistant"
                       \/ n + 2 = Len(calls[i].args)

\* a resumed run whose snapshot is not empty, after its AI call of step 2
C4_Witness ==
    /\ invocation > 0
    /\ pc = "await_chat"
    /\ stepNumber = 2
    /\ resumeFromContext[1].previousMessages # <<>>

LoopStep ==
    \/ Start
    \/ AfterFirstEvent
    \/ MessagesFetched
    \/ CancelledDelivered
    \/ PromptBuilt
    \/ ChatReturned
    \/ FileEventDelivered
    \/ UpsertDone
    \/ ListDone
    \/ DeleteDone
    \/ ActionEventDelivered
    \/ StepCompleteDelivered
    \/ CooldownDelivered
    \/ TickElapsed
    \/ AuthRequiredDelivered
    \/ PausedDelivered
    \/ ErrorDelivered
    \/ FinalDelivered

\* every collaborator call and timer ends, and the consumer keeps pulling
FairSpec == Spec /\ WF_vars(LoopStep)

\* the iterations this invocation has entered: one per prompt request, plus
\* the one that ended at the cancellation check
Iterations ==
    Cardinality(MyCalls("prompt"))
        + Cardinality({i \in 1..Len(yielded) :
                          yielded[i].type = "error" /\ ~yielded[i].recoverable})

\* C6: every invocation ends, whatever the collaborators answer, after at
\* most maxSteps - startStep + 1 iterations and at most that many AI chat
\* calls.
C6_Terminates ==
    /\ [](Running => /\ Iterations <= maxSteps - startStep + 1
                     /\ Cardinality(MyCalls("chat")) <= maxSteps - startStep + 1)
    /\ [](pc # "done" => <>(pc = "done"))

\* a finished run that used the whole step budget on AI calls, one of which
\* failed
C6_Witness ==
    /\ pc = "done"
    /\ startStep = 1
    /\ Cardinality(MyCalls("chat")) = maxSteps
    /\ Failures # {}

\* C7 (as stated): every complete event carries filesCreated, filesUpdated
\* and filesDeleted lists equal, in order, to the base names of the targets
\* of the create_file, update_file and delete_file actions whose mutation
\* the file collaborator has performed so far for this Context.
C7_CompleteListsEqualPerformed ==
    \A i \in 1..Len(yielded) :
        yielded[i].type = "complete" =>
            /\ yielded[i].filesCreated = executed.filesCreated
            /\ yielded[i].filesUpdated = executed.filesUpdated
            /\ yielded[i].filesDeleted = executed.filesDeleted

\* the events of a run other than the cooldown ticks
NonCooldown(events) == SelectSeq(events, LAMBDA e : e.type # "cooldown")

\* file_creating, file_created, step_complete for each of the first m steps
RECURSIVE CreateStepEvents(_, _)
CreateStepEvents(steps, m) ==
    IF m = 0 THEN <<>>
    ELSE CreateStepEvents(steps, m - 1) \o
         <<[type |-> "file_creating", path |-> steps[m].target[1],
            fileName |-> getFileName(steps[m].target[1])],
           [type |-> "file_created", path |-> steps[m].target[1],
            fileName |-> getFileName(steps[m].target[1])],
           [type |-> "step_complete", stepNumber |-> m, action |-> "create_file"]>>

\* a finished fresh run without failure or cancellation in which the model
\* returned create_file with target and content for steps 1..n-1 and
\* complete at step n
CreateThenCompleteRun ==
    /\ invocation = 0
    /\ pc = "done"
    /\ Failures = {}
    /\ ~aborted
    /\ context.steps # <<>>
    /\ Last(context.steps).action = "complete"
    /\ \A i \in 1..(Len(context.steps) - 1) :
          /\ context.steps[i].action = "create_file"
          /\ Truthy(context.steps[i].target)
          /\ Truthy(context.steps[i].content)

\* thinking, the events of the create steps, and the complete event
ExpectedUpToComplete ==
    LET n == Len(context.steps)
    IN  <<[type |-> "thinking", message |-> <<"Analyzing your request...">>]>>
        \o CreateStepEvents(context.steps, n - 1)
        \o <<[type |-> "complete", summary |-> context.steps[n].reasoning,
              filesCreated |-> [i \in 1..(n - 1) |->
                                   getFileName(context.steps[i].target[1])],
              filesUpdated |-> <<>>, filesDeleted |-> <<>>]>>

\* cooldown ticks follow step_complete(i) for every i < n and nothing else:
\* a duration in minCooldownMs..maxCooldownMs, counted down by the second
CooldownTicksFollow(n) ==
    \A j \in 1..Len(yielded) :
        /\ yielded[j].type = "cooldown" =>
              /\ j > 1
              /\ yielded[j].remaining >= 1
              /\ \/ /\ yielded[j - 1].type = "step_complete"
                    /\ yielded[j - 1].stepNumber < n
                    /\ yielded[j].durationMs \in minCooldownMs..maxCooldownMs
                    /\ yielded[j].remaining = CeilDiv(yielded[j].durationMs, TickMs)
                 \/ /\ yielded[j - 1].type = "cooldown"
                    /\ yielded[j].durationMs = yielded[j - 1].durationMs
                    /\ yielded[j].remaining = yielded[j - 1].remaining - 1
              /\ yielded[j].remaining > 1 =>
                    j < Len(yielded) /\ yielded[j + 1].type = "cooldown"
        /\ (yielded[j].type = "step_complete" /\ yielded[j].stepNumber < n) =>
              j < Len(yielded) /\ yielded[j + 1].type = "cooldown"

\* C8 (as stated): in a fresh run without error or cancellation where the
\* model returns create_file for steps 1..n-1 and complete at step n, the
\* events are thinking, then file_creating, file_created, step_complete(i)
\* and cooldown ticks for each i < n, then the complete event, which is the
\* last event of the run.
C8_CreateRunEndsWithComplete ==
    CreateThenCompleteRun =>
        /\ NonCooldown(yielded) = ExpectedUpToComplete
        /\ CooldownTicksFollow(Len(context.steps))
        /\ Last(yielded).type = "complete"

\* C8 (amended): in such a run the events are thinking, then file_creating,
\* file_created, step_complete(i) and cooldown ticks for each i < n, then
\* the complete event carrying the created base names in order, and last
\* step_complete(n) for the complete action; no cooldown tick follows it and
\* every event is delivered.
C8_CreateRunEndsWithStepComplete ==
    CreateThenCompleteRun =>
        /\ NonCooldown(yielded) =
              ExpectedUpToComplete
              \o <<[type |-> "step_complete", stepNumber |-> Len(context.steps),
                    action |-> "complete"]>>
        /\ CooldownTicksFollow(Len(context.steps))
        /\ Last(yielded).type = "step_complete"
        /\ delivered = yielded

\* a finished run that created a file at step 1 and completed at step 2
C8_Witness ==
    /\ CreateThenCompleteRun
    /\ Len(context.steps) = 2
    /\ context.filesCreated = <<getFileName(JavaPath)>>
    /\ \E j \in 1..Len(yielded) : yielded[j].type = "cooldown"

\* one step of the program keeps completion final
CompletionIsFinal ==
    /\ (~context.isComplete /\ context'.isComplete) =>
          /\ Len(context'.steps) = Len(context.steps) + 1
          /\ SubSeq(context'.steps, 1, Len(context.steps)) = context.steps
          /\ Last(context'.steps).action = "complete"
    /\ context.isComplete =>
          /\ context'.isComplete
          /\ context'.steps = context.steps
          /\ calls' = calls
          /\ executed' = executed

\* C9: isComplete changes from false to true only in the step that appends a
\* Step with action complete, and once it is true no collaborator call (AI
\* call or file mutation) is issued, no Step is appended and it stays true.
C9_CompleteStopsTheLoop == [][CompletionIsFinal]_vars

\* a run that completed at a step before the last of the budget, and ended
C9_Witness ==
    /\ pc = "done"
    /\ context.isComplete
    /\ Last(context.steps).action = "complete"
    /\ Last(context.steps).stepNumber < maxSteps
    /\ Last(yielded).type = "step_complete"

PauseFieldsAgree(c) ==
    IsPausedTrue(c) <=> (PauseReasonSet(c) /\ Has(c, "pausedAtStep"))

\* C10: in every state of the working Context, of the Context handed to the
\* pause callback and of the Context supplied for a resume, isPaused is true
\* if and only if pauseReason is not none and pausedAtStep is set.
C10_PausedIffReasonAndStep ==
    /\ PauseFieldsAgree(context)
    /\ \A i \in 1..Len(pauseCalls) : PauseFieldsAgree(pauseCalls[i])
    /\ resumeFromContext # None => PauseFieldsAgree(resumeFromContext[1])

\* a resumed run at work: pausedAtStep is still set, the pause is cleared
C10_Witness ==
    /\ invocation > 0
    /\ pc = "await_chat"
    /\ Has(context, "pausedAtStep")
    /\ ~IsPausedTrue(context)
    /\ ~PauseReasonSet(context)

\* C11: no Context (working, handed to the pause callback, or supplied for a
\* resume) has both isComplete = true and isPaused = true.
C11_NeverCompleteAndPaused ==
    /\ ~(context.isComplete /\ IsPausedTrue(context))
    /\ \A i \in 1..Len(pauseCalls) :
          ~(pauseCalls[i].isComplete /\ IsPausedTrue(pauseCalls[i]))
    /\ resumeFromContext # None =>
          ~(resumeFromContext[1].isComplete /\ IsPausedTrue(resumeFromContext[1]))

\* a Context that was paused, resumed and then completed
C11_Witness ==
    /\ invocation > 0
    /\ context.isComplete
    /\ Has(context, "pausedAtStep")
    /\ Len(context.steps) >= 1

\* the number of the iteration that yielded event j: the step of the latest
\* collaborator call of an iteration that had ended before it (0: before the
\* first iteration)
StepOf(j) ==
    LET before == {i \in MyOutcomes : outcomes[i].kind # "messages"
                                      /\ outcomes[i].at < j}
    IN  IF before = {} THEN 0
        ELSE outcomes[CHOOSE i \in before : \A h \in before : i >= h].stepNumber

\* the events the switch statement emits for an action
IsActionEvent(e) ==
    \/ e.type \in {"planning", "thinking", "file_creating", "file_created",
                   "file_updating", "file_updated", "file_deleting", "file_deleted"}
    \/ e.type = "complete" /\ e.summary # BudgetSummary

\* the *ing event that announces an *ed event
Announcing(type) ==
    CASE type = "file_created" -> "file_creating"
      [] type = "file_updated" -> "file_updating"
      [] type = "file_deleted" -> "file_deleting"

\* C12: every file_created / file_updated / file_deleted event is directly
\* preceded, within the same step, by its file_creating / file_updating /
\* file_deleting event for the same path; step_complete(k) is emitted once,
\* in step k, after every action event of step k and before every event of
\* a later step.
C12_EventOrderWithinStep ==
    \A j \in 1..Len(yielded) :
        /\ yielded[j].type \in {"file_created", "file_updated", "file_deleted"} =>
              /\ j > 1
              /\ yielded[j - 1].type = Announcing(yielded[j].type)
              /\ yielded[j - 1].path = yielded[j].path
              /\ StepOf(j - 1) = StepOf(j)
        /\ yielded[j].type = "step_complete" =>
              LET k == yielded[j].stepNumber
              IN  /\ StepOf(j) = k
                  /\ \A i \in 1..Len(yielded) :
                        /\ (i # j /\ yielded[i].type = "step_complete") =>
                              yielded[i].stepNumber # k
                        /\ (IsActionEvent(yielded[i]) /\ StepOf(i) = k) => i < j
                        /\ StepOf(i) > k => i > j
                        /\ (i < j /\ StepOf(i) = k) => IsActionEvent(yielded[i])

\* a finished run whose step 1 created a file and whose step 2 emitted events
C12_Witness ==
    /\ pc = "done"
    /\ Len(yielded) >= 6
    /\ yielded[3].type = "file_created"
    /\ yielded[4] = [type |-> "step_complete", stepNumber |-> 1, action |-> "create_file"]
    /\ \E j \in 1..Len(yielded) :
          yielded[j].type = "step_complete" /\ yielded[j].stepNumber = 2

\* C13: the cooldown events of a countdown carry one durationMs within
\* minCooldownMs..maxCooldownMs; the first directly follows step_complete of
\* the finished step and carries remaining = ceil(durationMs / 1000), each
\* later one carries one less than the one before it, and an event of the
\* next step (or the final event of the run) follows only the tick with
\* remaining = 1.
C13_CooldownCountsDown ==
    \A j \in 1..Len(yielded) :
        yielded[j].type = "cooldown" =>
            LET ms == yielded[j].durationMs
                rem == yielded[j].remaining
            IN  /\ j > 1
                /\ ms \in minCooldownMs..maxCooldownMs
                /\ rem >= 1
                /\ \/ /\ yielded[j - 1].type = "step_complete"
                      /\ yielded[j - 1].stepNumber = StepOf(j)
                      /\ rem * 1000 >= ms
                      /\ (rem - 1) * 1000 < ms
                   \/ /\ yielded[j - 1].type = "cooldown"
                      /\ yielded[j - 1].durationMs = ms
                      /\ yielded[j - 1].remaining = rem + 1
                /\ StepOf(j) = StepOf(j - 1)
                /\ j < Len(yielded) =>
                      \/ yielded[j + 1].type = "cooldown"
                      \/ rem = 1 /\ (StepOf(j + 1) > StepOf(j)
                                     \/ yielded[j + 1].type \in {"error", "auth_required"})

\* a countdown of 1999 ms that ran to its end: ticks 2 and 1, then the
\* first event of step 2
C13_Witness ==
    \E j \in 1..Len(yielded) :
        /\ j + 2 <= Len(yielded)
        /\ yielded[j] = [type |-> "cooldown", durationMs |-> 1999, remaining |-> 2]
        /\ yielded[j + 1] = [type |-> "cooldown", durationMs |-> 1999, remaining |-> 1]
        /\ IsActionEvent(yielded[j + 2])
        /\ StepOf(j + 2) = 2

\* C14 (as stated): the cancellation signal is checked before each cooldown
\* tick: a cooldown event is never emitted while the signal is set, and once
\* the signal is set during a countdown no further tick is emitted.
C14_NoTickOnceCancelled ==
    [][(aborted /\ Len(yielded') > Len(yielded))
           => Last(yielded').type # "cooldown"]_vars

\* C15: a cancellation error event (recoverable = false) is the single, last
\* event of its invocation and is emitted by an iteration that found the
\* signal set at its start: that iteration builds no prompt, makes no AI
\* call and records no Step; and no prompt is requested by an iteration
\* that started with the signal set.
C15_CancelledAtIterationStart ==
    /\ \A i \in MyCalls("prompt") : ~calls[i].aborted
    /\ pc = "y_cancelled" =>
          Last(yielded) = [type |-> "error", message |-> <<"Execution cancelled">>,
                           recoverable |-> FALSE]
    /\ \A j \in 1..Len(yielded) :
          (yielded[j].type = "error" /\ ~yielded[j].recoverable) =>
              /\ j = Len(yielded)
              /\ pc \in {"y_cancelled", "done"}
              /\ aborted
              /\ stepNumber \in startStep..maxSteps
              /\ \A i \in 1..Len(calls) : calls[i].stepNumber < stepNumber
              /\ StepsNumbered(context.steps, stepNumber) = {}
              /\ pc = "done" => delivered = yielded

\* a run cancelled before its second iteration: step 1 is recorded, the
\* error event is the last event and the run has ended
C15_Witness ==
    /\ pc = "done"
    /\ stepNumber = 2
    /\ Len(context.steps) = 1
    /\ Last(yielded).type = "error"
    /\ ~Last(yielded).recoverable
    /\ MyCalls("chat") # {}

\* the invocation has observed the cancellation signal: at the start of an
\* iteration, after an AI call that returned, or after a cooldown wait
CancellationObserved ==
    \/ \E j \in 1..Len(yielded) : yielded[j].type = "error" /\ ~yielded[j].recoverable
    \/ \E i \in MyOutcomes : outcomes[i].kind = "chat" /\ outcomes[i].ok
                             /\ outcomes[i].aborted
    \/ pc = "done" /\ yielded # <<>> /\ Last(yielded).type = "cooldown"

\* C16 (as stated): the last event of every invocation that stopped after
\* observing the cancellation signal is an error event with
\* recoverable = false.
C16_CancellationIsReported ==
    (pc = "done" /\ CancellationObserved) =>
        /\ Last(yielded).type = "error"
        /\ ~Last(yielded).recoverable

\* the suspension points at which a collaborator call or a timer is in flight
InFlight == pc \in {"await_chat", "await_upsert", "await_list", "await_delete",
                    "await_tick"}

\* C17 (as stated): when an AI chat call, a file-mutation call or a cooldown
\* wait ends while the cancellation signal is set, the loop emits no
\* progress event (file_created, file_updated, file_deleted, step_complete,
\* cooldown) and starts no collaborator call.
C17_SignalCheckedAfterEveryCall ==
    [][(aborted /\ InFlight) =>
          /\ calls' = calls
          /\ Len(yielded') > Len(yielded) =>
                Last(yielded').type \notin {"file_created", "file_updated",
                                            "file_deleted", "step_complete",
                                            "cooldown"}]_vars

\* the collaborator calls of this invocation, within an iteration, that
\* ended in an error other than quota exhaustion (the AI call that returned
\* with the signal set raises 'Aborted')
GenericFailures ==
    {i \in MyOutcomes :
        /\ outcomes[i].kind # "messages"
        /\ \/ ~outcomes[i].ok /\ ~outcomes[i].lowBalance
           \/ outcomes[i].kind = "chat" /\ outcomes[i].ok /\ outcomes[i].aborted}

\* C18: a failure of step k with an error other than quota exhaustion is
\* followed by exactly one error event with recoverable = true; step k is
\* not attempted again (one prompt request and at most one AI call carry
\* the number k, and every later call a greater one); once the error event
\* is delivered the loop is at a later step: iteration k + 1 has started
\* when k < maxSteps, and the step-budget complete event follows otherwise;
\* during step k the Context is neither paused nor complete.
C18_GenericErrorSkipsStep ==
    \A i \in GenericFailures :
        LET k == outcomes[i].stepNumber
            a == outcomes[i].at
        IN  /\ Len(yielded) > a
            /\ yielded[a + 1].type = "error"
            /\ yielded[a + 1].recoverable = TRUE
            /\ Cardinality({j \in 1..Len(yielded) :
                               /\ yielded[j].type = "error"
                               /\ yielded[j].recoverable
                               /\ StepOf(j) = k}) = 1
            /\ Cardinality({c \in MyCalls("prompt") : calls[c].stepNumber = k}) <= 1
            /\ Cardinality({c \in MyCalls("chat") : calls[c].stepNumber = k}) <= 1
            /\ \A c \in 1..Len(calls) :
                  c > outcomes[i].call => calls[c].stepNumber > k
            /\ Len(delivered) > a =>
                  /\ stepNumber = k + 1
                       \/ \E h \in MyOutcomes : outcomes[h].stepNumber > k
                  /\ IF k < maxSteps
                     THEN \/ \E c \in MyCalls("prompt") : calls[c].stepNumber = k + 1
                          \/ /\ Len(yielded) >= a + 2
                             /\ yielded[a + 2] = [type |-> "error",
                                                  message |-> <<"Execution cancelled">>,
                                                  recoverable |-> FALSE]
                     ELSE /\ Len(yielded) = a + 2
                          /\ yielded[a + 2].type = "complete"
                          /\ MyCalls("prompt") \cap
                                {c \in 1..Len(calls) : c > outcomes[i].call} = {}
            /\ stepNumber = k => (~IsPausedTrue(context) /\ ~context.isComplete)

\* a finished run whose file mutation of step 1 failed and whose step 2 was
\* recorded
C18_Witness ==
    /\ pc = "done"
    /\ \E i \in GenericFailures :
          outcomes[i].kind = "upsert" /\ outcomes[i].stepNumber = 1
    /\ StepsNumbered(context.steps, 2) # {}
    /\ Cardinality(StepsNumbered(context.steps, 1)) = 1

\* the complete events of this invocation
CompleteEvents == {j \in 1..Len(yielded) : yielded[j].type = "complete"}

\* the invocation has ended by leaving the iteration range: it has not
\* paused and has not returned on cancellation
LeftIterationRange ==
    /\ pc = "done"
    /\ pauseCalls = <<>>
    /\ yielded # <<>>
    /\ Last(yielded).type # "cooldown"
    /\ ~(Last(yielded).type = "error" /\ ~Last(yielded).recoverable)

\* C19: an invocation emits at most one complete event; when it leaves the
\* iteration range with isComplete false, its last event is a complete event
\* whose summary reports the exhausted step budget and whose three lists
\* are the accumulated lists of the Context, and isComplete stays false;
\* the step-budget complete event is emitted in no other case.
C19_BudgetExhaustedCompletes ==
    LET final == [type |-> "complete",
                  summary |-> <<"Reached maximum steps (", NumStr[maxSteps],
                                "). Task may be incomplete.">>,
                  filesCreated |-> context.filesCreated,
                  filesUpdated |-> context.filesUpdated,
                  filesDeleted |-> context.filesDeleted]
    IN  /\ Cardinality(CompleteEvents) <= 1
        /\ (LeftIterationRange /\ ~context.isComplete) =>
              /\ Last(yielded) = final
              /\ delivered = yielded
        /\ pc = "y_final" => (Last(yielded) = final /\ ~context.isComplete)
        /\ \A j \in CompleteEvents :
              yielded[j].summary = final.summary =>
                  /\ j = Len(yielded)
                  /\ yielded[j] = final
                  /\ ~context.isComplete
                  /\ stepNumber = maxSteps + 1
                  /\ pc \in {"y_final", "done"}

\* a run that used up the step budget after creating a file
C19_Witness ==
    /\ pc = "done"
    /\ LeftIterationRange
    /\ ~context.isComplete
    /\ context.filesCreated # <<>>
    /\ Last(yielded).type = "complete"
    /\ Len(context.steps) = maxSteps

\* C20: the events passed to onEvent are at every moment a prefix of the
\* yielded events, in the same order, behind by at most the event the
\* consumer currently holds; when the invocation has ended the two
\* sequences are equal.
C20_PushViewMatchesPullView ==
    /\ IsPrefix(delivered, yielded)
    /\ Len(yielded) - Len(delivered) <= 1
    /\ pc \in {"y_first", "y_cancelled", "y_file", "y_action", "y_step_complete",
               "y_cooldown", "y_auth", "y_paused", "y_error", "y_final"}
          <=> Len(yielded) = Len(delivered) + 1
    /\ pc = "done" => delivered = yielded

\* a finished run whose last event, the step-budget complete event, has
\* been passed to onEvent
C20_Witness ==
    /\ pc = "done"
    /\ Len(delivered) >= 4
    /\ Last(delivered).type = "complete"
    /\ Last(delivered).summary = BudgetSummary
    /\ delivered = yielded

\* the calls of the prompt builder, the AI chat and the file collaborator,
\* within an iteration, that raised an error
StepFailures ==
    {i \in MyOutcomes : outcomes[i].kind # "messages" /\ ~outcomes[i].ok}

\* C21: every failure of the prompt builder, the AI chat or the file
\* collaborator during a step is converted into events, the next event after
\* the failure being a recoverable error event, or auth_required followed by
\* paused for quota exhaustion; the loop then continues with a later step or
\* has returned with every event delivered.
C21_FailuresBecomeEvents ==
    \A i \in StepFailures :
        LET a == outcomes[i].at
            k == outcomes[i].stepNumber
        IN  /\ Len(yielded) > a
            /\ IF outcomes[i].lowBalance
               THEN /\ yielded[a + 1] = [type |-> "auth_required"]
                    /\ pc \in {"y_auth", "y_paused", "done"}
                    /\ pc # "y_auth" =>
                          /\ Len(yielded) = a + 2
                          /\ yielded[a + 2].type = "paused"
               ELSE /\ yielded[a + 1].type = "error"
                    /\ yielded[a + 1].recoverable
                    /\ yielded[a + 1].message # <<>>
                    /\ Len(delivered) = a => (pc = "y_error" /\ Len(yielded) = a + 1)
                    /\ Len(delivered) > a => stepNumber > k
            /\ pc = "done" => delivered = yielded

\* a finished run in which the listing of the file collaborator failed at
\* step 1 and the loop went on to step 2
C21_Witness ==
    /\ pc = "done"
    /\ \E i \in StepFailures : outcomes[i].kind = "list" /\ outcomes[i].stepNumber = 1
    /\ \E i \in MyOutcomes : outcomes[i].kind = "chat" /\ outcomes[i].stepNumber = 2

\* errors puter.ai.chat may raise that carry a status code 402 or 429 or a
\* message or type of the balance / quota / billing vocabulary
QuotaSamples ==
    {ErrQuotaText, ErrQuotaCode,
     [message |-> None, code |-> Some(402), type |-> None],
     [message |-> Some(<<"request", SP, "failed">>), code |-> None,
      type |-> Some(<<"billing">>)],
     [message |-> Some(<<"quota">>), code |-> Some(500), type |-> None],
     [message |-> Some(<<"payment", SP, "required">>), code |-> None, type |-> None],
     [message |-> Some(<<"limit", SP, SP, "exceeded">>), code |-> None, type |-> None]}

\* errors that carry none of these signs
GenericSamples ==
    {ErrNetwork,
     [message |-> None, code |-> None, type |-> None],
     [message |-> Some(<<"server", SP, "error">>), code |-> Some(500), type |-> None],
     [message |-> Some(<<"limit">>), code |-> Some(403), type |-> Some(<<"Error">>)],
     [message |-> Some(<<"usage", SP, "report">>), code |-> None, type |-> None]}

\* the AI chat calls of this invocation that raised an error
ChatFailures == {i \in MyOutcomes : outcomes[i].kind = "chat" /\ ~outcomes[i].ok}

UpsertSteps ==
    {i \in 1..Len(NewSteps) : NewSteps[i].action \in {"create_file", "update_file"}}

\* the upsert calls of this invocation issued in step k
UpsertCalls(k) == {c \in MyCalls("upsert") : calls[c].stepNumber = k}

\* C23: a recorded create_file or update_file Step whose target or content
\* is absent issues no upsert call and emits no file event, and
\* step_complete is the next event after its AI call; one with both present
\* emits the *ing event next and issues at most one upsert call, with the
\* target's base name, the path, the content and isFolder = false. A base
\* name is in filesCreated / filesUpdated exactly for the upsert calls that
\* succeeded, in order.
C23_UpsertOnlyWithTargetAndContent ==
    /\ context.filesCreated = executed.filesCreated
    /\ context.filesUpdated = executed.filesUpdated
    /\ pc # "idle" => \A i \in UpsertSteps :
          LET s == NewSteps[i]
              k == s.stepNumber
              a == outcomes[CHOOSE h \in Completions(k) : TRUE].at
              fileEvents == {j \in 1..Len(yielded) :
                               /\ StepOf(j) = k
                               /\ yielded[j].type \in {"file_creating", "file_created",
                                                       "file_updating", "file_updated"}}
          IN  IF s.target # None /\ s.target[1] # <<>>
                 /\ s.content # None /\ s.content[1] # <<>>
              THEN /\ yielded[a + 1] =
                         [type |-> IF s.action = "create_file"
                                   THEN "file_creating" ELSE "file_updating",
                          path |-> s.target[1],
                          fileName |-> getFileName(s.target[1])]
                   /\ Cardinality(UpsertCalls(k)) <= 1
                   /\ Len(delivered) > a => Cardinality(UpsertCalls(k)) = 1
                   /\ \A c \in UpsertCalls(k) :
                         calls[c].args = [name |-> getFileName(s.target[1]),
                                          path |-> s.target[1],
                                          content |-> s.content[1],
                                          isFolder |-> FALSE]
              ELSE /\ UpsertCalls(k) = {}
                   /\ fileEvents = {}
                   /\ yielded[a + 1] = [type |-> "step_complete", stepNumber |-> k,
                                        action |-> s.action]

\* a finished run whose step 1 was create_file without content and whose
\* step 2 updated a file
C23_Witness ==
    /\ pc = "done"
    /\ Len(NewSteps) = 2
    /\ NewSteps[1].action = "create_file"
    /\ NewSteps[1].content = None
    /\ NewSteps[1].target # None
    /\ NewSteps[2].action = "update_file"
    /\ context.filesUpdated = <<getFileName(PomPath)>>
    /\ context.filesCreated = <<>>

\* the listings of this invocation that the file collaborator returned
ListingsReturned == {i \in MyOutcomes : outcomes[i].kind = "list" /\ outcomes[i].ok}

\* the identifiers under which some listing holds a file with this path
ListedIds(path) ==
    {files[n].id : <<files, n>> \in
        {fn \in UNION {{<<l, m>> : m \in 1..Len(l)} : l \in Listings} :
            fn[1][fn[2]].path = path}}

\* C24: every delete call directly follows the successful listing call of
\* the same delete_file step and carries the identifier of a listed file
\* whose path equals the target; after a listing that was returned either
\* that delete call is issued, or (no listed path equals the target) no
\* delete call is issued in the step and the next event is file_deleted,
\* with no error event in the step.
C24_DeleteResolvesByListing ==
    /\ \A c \in MyCalls("delete") :
          /\ c > 1
          /\ calls[c - 1].kind = "list"
          /\ calls[c - 1].stepNumber = calls[c].stepNumber
          /\ \E i \in ListingsReturned :
                /\ outcomes[i].call = c - 1
                /\ calls[c].args \in ListedIds(outcomes[i].path)
    /\ \A c \in MyCalls("list") :
          /\ c > 1
          /\ calls[c - 1].kind = "chat"
          /\ calls[c - 1].stepNumber = calls[c].stepNumber
    /\ \A i \in ListingsReturned :
          LET a == outcomes[i].at
              k == outcomes[i].stepNumber
              c == outcomes[i].call
          IN  /\ outcomes[i].action = "delete_file"
              /\ \/ /\ Len(calls) > c
                    /\ calls[c + 1].kind = "delete"
                    /\ calls[c + 1].stepNumber = k
                 \/ /\ \A d \in MyCalls("delete") : calls[d].stepNumber # k
                    /\ Len(yielded) > a
                    /\ yielded[a + 1] = [type |-> "file_deleted",
                                         path |-> outcomes[i].path,
                                         fileName |-> getFileName(outcomes[i].path)]
                    /\ \A j \in 1..Len(yielded) :
                          StepOf(j) = k => yielded[j].type # "error"
                                           \/ ~yielded[j].recoverable

\* a finished run whose step 1 found no listed file for its target and
\* issued no delete call, and whose step 2 deleted the listed file
C24_Witness ==
    /\ pc = "done"
    /\ Cardinality(ListingsReturned) = 2
    /\ Cardinality(MyCalls("delete")) = 1
    /\ \A d \in MyCalls("delete") : calls[d].stepNumber = 2 /\ calls[d].args = 9
    /\ Failures = {}
    /\ \E j \in 1..Len(yielded) :
          yielded[j] = [type |-> "step_complete", stepNumber |-> 1,
                        action |-> "delete_file"]

\* the actions without an effect on files
Informational == {"plan", "analyze", "complete"}

\* the file lists of a Context
FileLists(c) == <<c.filesCreated, c.filesUpdated, c.filesDeleted>>

\* the event the switch statement emits for an informational Step
InformationalEvent(s, c) ==
    CASE s.action = "plan" -> [type |-> "planning", message |-> s.reasoning]
      [] s.action = "analyze" -> [type |-> "thinking", message |-> s.reasoning]
      [] s.action = "complete" ->
            [type |-> "complete", summary |-> s.reasoning,
             filesCreated |-> c.filesCreated, filesUpdated |-> c.filesUpdated,
             filesDeleted |-> c.filesDeleted]

\* the events and calls of every informational Step of this invocation:
\* after its AI call, the one event of the action, then step_complete, and
\* no call to the file collaborator
InformationalStepsObserved ==
    pc # "idle" =>
      \A i \in 1..Len(NewSteps) :
        NewSteps[i].action \in Informational =>
            LET s == NewSteps[i]
                k == s.stepNumber
                a == outcomes[CHOOSE h \in Completions(k) : TRUE].at
                mine == {j \in 1..Len(yielded) :
                            StepOf(j) = k /\ yielded[j].type # "cooldown"}
            IN  /\ \A c \in 1..Len(calls) :
                      calls[c].stepNumber = k =>
                          calls[c].kind \in {"prompt", "chat"}
                /\ yielded[a + 1] = InformationalEvent(s, context)
                /\ mine \subseteq {a + 1, a + 2, a + 3}
                /\ a + 2 \in mine =>
                      yielded[a + 2] = [type |-> "step_complete", stepNumber |-> k,
                                        action |-> s.action]
                /\ a + 3 \in mine => yielded[a + 3].type \in {"complete", "error"}
                /\ s.action = "complete" <=> (context.isComplete /\ i = Len(NewSteps))

\* one step of the program within an informational action leaves the file
\* lists as they are
InformationalStepKeepsLists ==
    (/\ parsed' # None
     /\ parsed'[1].action \in Informational
     /\ pc' \in {"y_action", "y_step_complete"} \/ pc \in {"y_action", "y_step_complete"})
        => /\ FileLists(context') = FileLists(context)
           /\ executed' = executed

\* C25: a Step whose action is plan, analyze or complete issues no call to
\* the file collaborator and leaves filesCreated, filesUpdated and
\* filesDeleted unchanged; plan emits one planning event and analyze one
\* thinking event carrying the parsed reasoning, and complete sets
\* isComplete and emits one complete event whose summary is the parsed
\* reasoning; step_complete follows.
C25_InformationalActions ==
    /\ []InformationalStepsObserved
    /\ [][InformationalStepKeepsLists]_vars

\* a finished run with a plan Step followed by a complete Step
C25_Witness ==
    /\ pc = "done"
    /\ Len(NewSteps) = 2
    /\ NewSteps[1].action = "plan"
    /\ NewSteps[2].action = "complete"
    /\ context.isComplete
    /\ \E j \in 1..Len(yielded) : yielded[j].type = "planning"

\* ------------------------------------------------ generateCooldownMs alone
\* the arguments tried: around zero, one tick and two ticks
CooldownArgs == {0, 1, 999, 1000, 1001, 1999, 2000, 2001}

\* any loop state will do for the function harnesses: the loop stays idle
LoopAtRest == LoopIdle /\ pool = CHOOSE q \in ResponsePools : TRUE

CooldownInit ==
    /\ LoopAtRest
    /\ PromptIdle
    /\ parseInput = <<>>
    /\ parseResult = None
    /\ cooldownMin \in CooldownArgs
    /\ cooldownMax \in CooldownArgs
    /\ cooldownMin <= cooldownMax
    /\ randomK \in 0..(RandomResolution - 1)
    /\ durationMs = None
    /\ secondsLeft = 0
    /\ ticks = 0

\* const cooldownMs = generateCooldownMs(minCooldownMs, maxCooldownMs);
\* const cooldownSeconds = Math.ceil(cooldownMs / 1000)
Generate ==
    /\ durationMs = None
    /\ durationMs' = Some(generateCooldownMs(cooldownMin, cooldownMax, randomK))
    /\ secondsLeft' = CeilDiv(durationMs'[1], TickMs)
    /\ ticks' = 0
    /\ UNCHANGED <<loop, prompt, parseInput, parseResult, cooldownMin, cooldownMax,
                   randomK>>

\* one round of the countdown with the signal not raised: a cooldown event
\* and one second of waiting
CountdownTick ==
    /\ durationMs # None
    /\ secondsLeft > 0
    /\ ticks' = ticks + 1
    /\ secondsLeft' = secondsLeft - 1
    /\ UNCHANGED <<loop, prompt, parseInput, parseResult, cooldownMin, cooldownMax,
                   randomK, durationMs>>

CooldownNext == Generate \/ CountdownTick

CooldownSpec == CooldownInit /\ [][CooldownNext]_vars

\* C26: for minMs <= maxMs the generated duration is an integer d with
\* minMs <= d <= maxMs, and an uncancelled countdown has between
\* ceil(minMs / 1000) and ceil(maxMs / 1000) ticks.
C26_CooldownWithinBounds ==
    durationMs # None =>
        /\ durationMs[1] \in Int
        /\ cooldownMin <= durationMs[1]
        /\ durationMs[1] <= cooldownMax
        /\ ticks + secondsLeft >= CeilDiv(cooldownMin, TickMs)
        /\ ticks + secondsLeft <= CeilDiv(cooldownMax, TickMs)
        /\ secondsLeft = 0 =>
              /\ ticks >= CeilDiv(cooldownMin, TickMs)
              /\ ticks <= CeilDiv(cooldownMax, TickMs)

\* a finished countdown of two ticks whose duration is the upper bound, above
\* the lower one
C26_Witness ==
    /\ durationMs # None
    /\ cooldownMin < cooldownMax
    /\ durationMs[1] = cooldownMax
    /\ secondsLeft = 0
    /\ ticks = 2

\* ------------------------------------------------ parseAgentResponse alone
\* the longest completion text tried, in lines
MaxLines == 4

\* the lines a completion text is made of
LineTemplates ==
    << <<"ACTION:", SP, "create_file">>,
       <<"ACTION:", SP, "DEPLOY">>,
       <<"ACTION:", SP, "Complete">>,
       <<SP, "TARGET:", SP, "a.txt">>,
       <<"TARGET:", SP, "none">>,
       <<"REASONING:", SP, "why">>,
       <<"REASONING:", SP, "because">>,
       <<":::CREATE_FILE", SP, "b.txt">>,
       <<SP, "body">>,
       <<":::END_FILE">>,
       <<":::DELETE_FILE", SP, "c.txt">>,
       <<":::UPDATE_FILE", SP, "d.txt">>,
       <<"---">> >>

\* lines.join('\n')
RECURSIVE JoinLines(_)
JoinLines(ls) ==
    IF ls = <<>> THEN <<>>
    ELSE IF Len(ls) = 1 THEN ls[1]
    ELSE ls[1] \o <<NL>> \o JoinLines(Tail(ls))

\* every text of at most MaxLines of these lines
CompletionTexts ==
    {JoinLines([i \in DOMAIN f |-> LineTemplates[f[i]]]) :
        f \in UNION {[1..n -> DOMAIN LineTemplates] : n \in 0..MaxLines}}

ParserInit ==
    /\ LoopAtRest
    /\ PromptIdle
    /\ parseInput \in CompletionTexts
    /\ parseResult = None
    /\ cooldownMin = minCooldownMs
    /\ cooldownMax = maxCooldownMs
    /\ randomK = 0
    /\ durationMs = None
    /\ secondsLeft = 0
    /\ ticks = 0

\* const parsed = parseAgentResponse(response)
Parse ==
    /\ parseResult = None
    /\ parseResult' = Some(parseAgentResponse(parseInput))
    /\ UNCHANGED <<loop, prompt, parseInput, cooldownMin, cooldownMax, randomK,
                   durationMs, secondsLeft, ticks>>

ParserNext == Parse

ParserSpec == ParserInit /\ [][ParserNext]_vars

\* ------------------------------------------- what a completion text holds
\* the lines whose trimmed text starts with a field prefix, by index
FieldLines(text, prefix) ==
    LET lines == Split(text, NL)
    IN  {i \in 1..Len(lines) : StartsWith(Trim(lines[i]), prefix)}

\* the text after the prefix on line i, trimmed
FieldValue(text, prefix, i) ==
    Trim(ReplaceFirst(Trim(Split(text, NL)[i]), prefix))

\* what an ACTION: line says on its own: its action, or plan when the value
\* is not in the closed set
ActionOfLine(text, i) ==
    LET v == ToLowerCase(FieldValue(text, "ACTION:", i))
    IN  IF Len(v) = 1 /\ v[1] \in AgentActionType THEN v[1] ELSE "plan"

\* the ACTION: lines carrying a value of the closed set
RecognisedActionLines(text) ==
    {i \in FieldLines(text, "ACTION:") :
        LET v == ToLowerCase(FieldValue(text, "ACTION:", i))
        IN  Len(v) = 1 /\ v[1] \in AgentActionType}

\* what a TARGET: line says on its own
TargetOfLine(text, i) ==
    LET v == FieldValue(text, "TARGET:", i)
    IN  IF v = <<"none">> \/ v = <<>> THEN None ELSE Some(v)

MaxOf(S) == CHOOSE i \in S : \A j \in S : i >= j

\* the target the structured fields give
StructuredTarget(text) ==
    IF FieldLines(text, "TARGET:") = {} THEN None
    ELSE TargetOfLine(text, MaxOf(FieldLines(text, "TARGET:")))

\* the reasoning the structured fields give
StructuredReasoning(text) ==
    IF FieldLines(text, "REASONING:") = {} THEN <<>>
    ELSE FieldValue(text, "REASONING:", MaxOf(FieldLines(text, "REASONING:")))

\* the action the structured fields give
StructuredAction(text) ==
    IF RecognisedActionLines(text) = {} THEN "plan"
    ELSE ActionOfLine(text, MaxOf(RecognisedActionLines(text)))

\* the text after the first separator, trimmed
SeparatorContent(text) ==
    IF IndexOf(text, "---") = 0 THEN None
    ELSE Some(Trim(SliceFrom(text, IndexOf(text, "---") + 1)))

\* the legacy patterns that match somewhere in the text
CreateMatches(text) == RegexExec(text, ":::CREATE_FILE", TRUE) # None
UpdateMatches(text) == RegexExec(text, ":::UPDATE_FILE", TRUE) # None
DeleteMatches(text) == RegexExec(text, ":::DELETE_FILE", FALSE) # None
LegacyMatches(text) ==
    CreateMatches(text) \/ UpdateMatches(text) \/ DeleteMatches(text)

Parsed == parseResult # None

\* the return value has the four fields of the declared return type
IsParseResult(r) ==
    /\ DOMAIN r = {"action", "target", "reasoning", "content"}
    /\ r.action \in {"plan", "create_file", "update_file", "delete_file",
                     "analyze", "complete"}
    /\ r.target = None \/ (Len(r.target) = 1 /\ r.target[1] # <<>>)
    /\ r.content = None \/ Len(r.content) = 1

\* C27 as stated: a text without a recognised ACTION: line parses to
\* action plan and no target.
C27_NoActionMeansPlanNoTarget ==
    (Parsed /\ RecognisedActionLines(parseInput) = {}) =>
        /\ parseResult[1].action = "plan"
        /\ parseResult[1].target = None

\* C27: every text parses to a value of the return type; a text without a
\* recognised ACTION: line in which no legacy marker pattern matches parses
\* to action plan, with the target of its last TARGET: line (none without
\* such a line, or when its value is empty or the word none).
C27_NoActionMeansPlan ==
    Parsed =>
        /\ IsParseResult(parseResult[1])
        /\ (RecognisedActionLines(parseInput) = {} /\ ~LegacyMatches(parseInput)) =>
              /\ parseResult[1].action = "plan"
              /\ parseResult[1].target = StructuredTarget(parseInput)
              /\ FieldLines(parseInput, "TARGET:") = {} =>
                    parseResult[1].target = None

\* a text whose only ACTION: line names no action, parsed to plan
C27_Witness ==
    /\ Parsed
    /\ parseInput = JoinLines(<<LineTemplates[2], LineTemplates[5], LineTemplates[9]>>)
    /\ parseResult[1].action = "plan"
    /\ parseResult[1].target = None

\* the paths and the body lines of a legacy block
LegacyPaths == {<<"b.txt">>}
BodyLines == {LineTemplates[9], LineTemplates[13]}

\* the bodies of at most MaxLines - 2 lines
LegacyBodies ==
    {JoinLines(f) : f \in UNION {[1..n -> BodyLines] : n \in 1..(MaxLines - 2)}}

\* :::CREATE_FILE path, the body on lines of its own, :::END_FILE
CreateBlock(path, body) ==
    <<":::CREATE_FILE", SP>> \o path \o <<NL>> \o body \o <<NL, ":::END_FILE">>

\* C28 as stated: a text that is one legacy create block parses to
\* create_file with the block's path as target and the block's body as
\* content.
C28_LegacyCreateExact ==
    Parsed =>
        \A path \in LegacyPaths, body \in LegacyBodies :
            parseInput = CreateBlock(path, body) =>
                /\ parseResult[1].action = "create_file"
                /\ parseResult[1].target = Some(path)
                /\ parseResult[1].content = Some(body)

\* C28: a text that is one legacy create block and holds no structured field
\* parses to create_file with the block's path as target and, as content,
\* the block's body without the white space at its two ends.
C28_LegacyCreateTrimmed ==
    Parsed =>
        \A path \in LegacyPaths, body \in LegacyBodies :
            parseInput = CreateBlock(path, body) =>
                /\ parseResult[1].action = "create_file"
                /\ parseResult[1].target = Some(Trim(path))
                /\ parseResult[1].content = Some(Trim(body))
                /\ parseResult[1].reasoning = <<"Creating file: ">> \o Trim(path)

\* a create block whose body starts with an indented line, parsed
C28_Witness ==
    /\ Parsed
    /\ parseInput = CreateBlock(<<"b.txt">>, JoinLines(<<LineTemplates[9], LineTemplates[13]>>))
    /\ parseResult[1].action = "create_file"
    /\ parseResult[1].content = Some(<<"body", NL, "---">>)

\* C29: when a field prefix appears on several lines, the parsed value of the
\* field is what its last line says on its own (for ACTION:, the named
\* action, or plan when the value is outside the closed set); checked on
\* texts in which no legacy marker pattern matches.
C29_LastLineAlone ==
    (Parsed /\ ~LegacyMatches(parseInput)) =>
        /\ FieldLines(parseInput, "ACTION:") # {} =>
              parseResult[1].action =
                  ActionOfLine(parseInput, MaxOf(FieldLines(parseInput, "ACTION:")))
        /\ FieldLines(parseInput, "TARGET:") # {} =>
              parseResult[1].target =
                  TargetOfLine(parseInput, MaxOf(FieldLines(parseInput, "TARGET:")))
        /\ FieldLines(parseInput, "REASONING:") # {} =>
              parseResult[1].reasoning =
                  FieldValue(parseInput, "REASONING:",
                             MaxOf(FieldLines(parseInput, "REASONING:")))

\* what the structured fields and the separator give, without the fallback
StructuredResult(text) ==
    [action |-> StructuredAction(text), target |-> StructuredTarget(text),
     reasoning |-> StructuredReasoning(text), content |-> SeparatorContent(text)]

\* the action of the first legacy pattern that matches, in the order create,
\* update, delete; plan when none does
FirstLegacyAction(text) ==
    IF CreateMatches(text) THEN "create_file"
    ELSE IF UpdateMatches(text) THEN "update_file"
    ELSE IF DeleteMatches(text) THEN "delete_file"
    ELSE "plan"

\* the path captured by the legacy pattern of an action
LegacyPath(text, action) ==
    Trim(CASE action = "create_file" -> RegexExec(text, ":::CREATE_FILE", TRUE)[1][1]
           [] action = "update_file" -> RegexExec(text, ":::UPDATE_FILE", TRUE)[1][1]
           [] action = "delete_file" -> RegexExec(text, ":::DELETE_FILE", FALSE)[1][1])

\* a create block followed by a delete marker
CreateThenDelete ==
    JoinLines(<<LineTemplates[8], LineTemplates[9], LineTemplates[10],
                LineTemplates[11]>>)

\* an update marker in front of a create block: both block patterns match
UpdateAroundCreate ==
    JoinLines(<<LineTemplates[12], LineTemplates[8], LineTemplates[9],
                LineTemplates[10]>>)

\* a recognised action other than plan in front of a delete marker
CompleteThenDelete == JoinLines(<<LineTemplates[3], LineTemplates[11]>>)

\* C30: the legacy fallback applies only when the structured action is
\* plan. Then create is tried first, update next and delete last, and the
\* first pattern that matches alone sets action, target and reasoning; with
\* any other structured action the markers change nothing.
C30_FallbackOrder ==
    Parsed =>
        LET r == parseResult[1]
            s == StructuredResult(parseInput)
            legacy == FirstLegacyAction(parseInput)
        IN  /\ s.action # "plan" => r = s
            /\ (s.action = "plan" /\ legacy = "plan") => r = s
            /\ (s.action = "plan" /\ legacy # "plan") =>
                  /\ r.action = legacy
                  /\ r.target = Some(LegacyPath(parseInput, legacy))
                  /\ r.reasoning # s.reasoning
                  /\ legacy = "delete_file" => r.content = s.content
            /\ parseInput = CreateThenDelete =>
                  r.action = "create_file" /\ r.target = Some(<<"b.txt">>)
            /\ parseInput = UpdateAroundCreate =>
                  r.action = "create_file" /\ r.target = Some(<<"b.txt">>)
            /\ parseInput = CompleteThenDelete =>
                  r.action = "complete" /\ r.target = None

\* a text with a create block and a delete marker, parsed to create_file
C30_Witness ==
    /\ Parsed
    /\ parseInput = CreateThenDelete
    /\ DeleteMatches(parseInput)
    /\ parseResult[1].action = "create_file"
    /\ parseResult[1].target = Some(<<"b.txt">>)

\* ---------------------------------------------------- makeAIRequest alone
\* the longest stored conversation and the most recorded Steps tried
MaxStored == 22
MaxRecorded == 7

\* context.steps after n informational steps
RecordedSteps(n) ==
    [i \in 1..n |->
        StepRecord(i, [action |-> IF i % 2 = 0 THEN "plan" ELSE "analyze",
                       target |-> None, reasoning |-> <<"why", NumStr[i]>>,
                       content |-> None])]

PromptInit ==
    /\ LoopAtRest
    /\ parseInput = <<>>
    /\ parseResult = None
    /\ cooldownMin = minCooldownMs
    /\ cooldownMax = maxCooldownMs
    /\ randomK = 0
    /\ durationMs = None
    /\ secondsLeft = 0
    /\ ticks = 0
    /\ \E n \in 0..MaxStored : promptStored = RawHistory(n)
    /\ promptLoaded = None
    /\ \E m \in 0..MaxRecorded : promptSteps = RecordedSteps(m)
    /\ promptSent = None

\* previousMessages = messages.slice(-20).map(...) on a fresh run
LoadHistory ==
    /\ promptLoaded = None
    /\ promptLoaded' = Some(LoadedMessages(promptStored))
    /\ UNCHANGED <<loop, parseInput, parseResult, cooldownMin, cooldownMax, randomK,
                   durationMs, secondsLeft, ticks, promptStored, promptSteps,
                   promptSent>>

\* makeAIRequest builds the messages of the step after the recorded ones
AssembleMessages ==
    /\ promptLoaded # None
    /\ promptSent = None
    /\ promptSent' =
         Some(ChatMessages([FreshContext EXCEPT !.steps = promptSteps],
                  SystemPrompt(Len(promptSteps) + 1, <<>>, <<>>), promptLoaded[1]))
    /\ UNCHANGED <<loop, parseInput, parseResult, cooldownMin, cooldownMax, randomK,
                   durationMs, secondsLeft, ticks, promptStored, promptLoaded,
                   promptSteps>>

PromptNext == LoadHistory \/ AssembleMessages

PromptSpec == PromptInit /\ [][PromptNext]_vars

Min(a, b) == IF a <= b THEN a ELSE b

\* the rendering of a Step as an assistant message
StepUtterance(s) ==
    [role |-> "assistant",
     content |-> <<"[Step ", NumStr[s.stepNumber], "] ", s.action, ": ">>
                    \o s.reasoning]

\* C31: the messages sent for a step are the system prompt, the last
\* min(10, n) prior conversation messages in order, the last min(5, m)
\* recorded Steps in order as assistant messages and one user message with
\* the task: at most 17; on a fresh run the prior conversation is the last
\* min(20, stored) messages of the server's.
C31_PromptAssembly ==
    /\ promptLoaded # None =>
          LET loaded == promptLoaded[1]
              n == Len(promptStored)
              kept == Min(20, n)
          IN  /\ Len(loaded) = kept
              /\ Len(loaded) <= 20
              /\ \A i \in 1..kept :
                    /\ loaded[i].content = promptStored[n - kept + i].content
                    /\ loaded[i].role =
                          IF promptStored[n - kept + i].role = "assistant"
                          THEN "assistant" ELSE "user"
    /\ promptSent # None =>
          LET sent == promptSent[1]
              loaded == promptLoaded[1]
              n == Len(loaded)
              m == Len(promptSteps)
              hn == Min(10, n)
              hm == Min(5, m)
          IN  /\ Len(sent) = 1 + hn + hm + 1
              /\ Len(sent) <= 17
              /\ sent[1].role = "system"
              /\ sent[1].content = <<"base", "STEP ", NumStr[m + 1], "created:", "updated:">>
              /\ \A i \in 1..hn : sent[1 + i] = loaded[n - hn + i]
              /\ \A i \in 1..hm :
                    sent[1 + hn + i] = StepUtterance(promptSteps[m - hm + i])
              /\ sent[Len(sent)] = [role |-> "user", content |-> task]

\* the largest prompt: 17 messages out of 20 loaded and 7 recorded
C31_Witness ==
    /\ promptSent # None
    /\ Len(promptStored) = 22
    /\ Len(promptLoaded[1]) = 20
    /\ Len(promptSteps) = 7
    /\ Len(promptSent[1]) = 17

\* the event after each step_complete: a cooldown exactly when the step did
\* not record complete and was not the last of the budget
CooldownFollowsStepComplete ==
    \A j \in 1..Len(yielded) :
        yielded[j].type = "step_complete" =>
            LET k == yielded[j].stepNumber
                needed == yielded[j].action # "complete" /\ k < maxSteps
            IN  /\ j < Len(yielded) => (yielded[j + 1].type = "cooldown" <=> needed)
                /\ (j = Len(yielded) /\ pc # "y_step_complete") => ~needed
                /\ ~needed => \A i \in (j + 1)..Len(yielded) :
                                  yielded[i].type # "cooldown"

\* the step of the program that leaves step_complete(k) starts a cooldown
\* exactly when the Context is not complete and k < maxSteps
CooldownDecision ==
    (pc = "y_step_complete" /\ pc' # "y_step_complete") =>
        /\ Last(yielded) = [type |-> "step_complete", stepNumber |-> stepNumber,
                            action |-> Last(context.steps).action]
        /\ (~context.isComplete /\ stepNumber < maxSteps)
              <=> (pc' = "y_cooldown" /\ Last(yielded').type = "cooldown")

\* C32: after step_complete(k) a cooldown runs if and only if the Context is
\* not complete and k < maxSteps; no cooldown event follows the step that
\* recorded complete, nor step maxSteps.
C32_CooldownIffMoreSteps ==
    /\ []CooldownFollowsStepComplete
    /\ [][CooldownDecision]_vars

\* a run whose step 1 was followed by a cooldown and whose step 2, the last
\* of the budget, was not
C32_Witness ==
    /\ pc = "done"
    /\ ~aborted
    /\ \E j \in 1..Len(yielded) :
          /\ yielded[j] = [type |-> "step_complete", stepNumber |-> 1, action |-> "plan"]
          /\ yielded[j + 1].type = "cooldown"
    /\ \E j \in 1..Len(yielded) :
          /\ yielded[j].type = "step_complete"
          /\ yielded[j].stepNumber = maxSteps
          /\ yielded[j].action # "complete"
          /\ yielded[j + 1].type = "complete"

\* the AI chat calls of this invocation, each by the outcome of the prompt
\* request it follows at once; its field at counts the events yielded before
\* the call started
ChatStarts == {i \in MyOutcomes : outcomes[i].kind = "prompt" /\ outcomes[i].ok}

\* C33: between any two consecutive AI chat calls of one invocation at least
\* one cooldown tick is emitted, also when the earlier step failed with a
\* generic recoverable error.
C33_CooldownBetweenChatCalls ==
    \A i, h \in ChatStarts :
        i < h => \E j \in (outcomes[i].at + 1)..outcomes[h].at :
                    yielded[j].type = "cooldown"

\* C34: every file_deleted event, and every name in filesDeleted, belongs to
\* a step that issued a delete-by-identifier call: a delete_file step whose
\* target is not in the listing emits no file_deleted event and adds nothing
\* to filesDeleted.
C34_DeletedMeansDeleteIssued ==
    /\ \A j \in 1..Len(yielded) :
          yielded[j].type = "file_deleted" =>
              \E c \in MyCalls("delete") : calls[c].stepNumber = StepOf(j)
    /\ invocation = 0 =>
          Len(context.filesDeleted) <= Cardinality(MyCalls("delete"))

\* C35: once the cancellation signal is set, the invocation emits no
\* complete event, neither for a complete action nor for the exhausted step
\* budget.
C35_NoCompleteOnceCancelled ==
    [][(aborted /\ Len(yielded') > Len(yielded))
           => Last(yielded').type # "complete"]_vars

\* C36: no AI chat call and no file-mutation call (upsert, list, delete) is
\* started while the cancellation signal is set.
C36_NoCallStartedWhenCancelled ==
    \A c \in 1..Len(calls) :
        calls[c].kind \in {"chat", "upsert", "list", "delete"} => ~calls[c].aborted

AnnouncingTypes == {"file_creating", "file_updating", "file_deleting"}

\* the event that reports the mutation an announcing event announced
Settling(e) ==
    [type |-> CASE e.type = "file_creating" -> "file_created"
                [] e.type = "file_updating" -> "file_updated"
                [] e.type = "file_deleting" -> "file_deleted",
     path |-> e.path, fileName |-> e.fileName]

\* the file requests of step k that failed
FileFailures(k) ==
    {i \in MyOutcomes : outcomes[i].kind \in {"upsert", "list", "delete"}
                        /\ ~outcomes[i].ok /\ outcomes[i].stepNumber = k}

\* where the loop is suspended inside the file operation of a step
InFileOperation == pc \in {"y_file", "await_upsert", "await_list", "await_delete"}

\* where the loop is suspended between the recording of a Step and its
\* step_complete event
InAction == InFileOperation \/ pc = "y_action"

StepCompleted(k) ==
    \E j \in 1..Len(yielded) :
        yielded[j].type = "step_complete" /\ yielded[j].stepNumber = k

\* C37 as stated: in a finished invocation every announcing event has its
\* matching file_created / file_updated / file_deleted event for the same
\* path after it, and every Step the invocation recorded has its
\* step_complete event.
C37_EveryAnnouncementSettled ==
    pc = "done" =>
        /\ \A j \in 1..Len(yielded) :
              yielded[j].type \in AnnouncingTypes =>
                  \E i \in (j + 1)..Len(yielded) : yielded[i] = Settling(yielded[j])
        /\ \A i \in 1..Len(NewSteps) : StepCompleted(NewSteps[i].stepNumber)

\* an announcing event is followed at once by its settling event, or by a
\* recoverable error event when a file request of the step failed; a
\* recorded Step has its step_complete event unless a file request of the
\* step failed
AnnouncementsSettleOrFail ==
    /\ \A j \in 1..Len(yielded) :
          yielded[j].type \in AnnouncingTypes =>
              /\ j = Len(yielded) => InFileOperation
              /\ j < Len(yielded) =>
                    IF FileFailures(StepOf(j)) = {}
                    THEN yielded[j + 1] = Settling(yielded[j])
                    ELSE /\ yielded[j + 1].type = "error"
                         /\ yielded[j + 1].recoverable
                         /\ yielded[j + 1].message = <<"500: files">>
    /\ pc # "idle" =>
          \A i \in 1..Len(NewSteps) :
              LET k == NewSteps[i].stepNumber
              IN  /\ FileFailures(k) # {} => ~StepCompleted(k)
                  /\ (FileFailures(k) = {} /\ ~StepCompleted(k)) =>
                        (stepNumber = k /\ InAction)

\* C37: every file_creating, file_updating or file_deleting event is
\* followed within the invocation by its matching file_created /
\* file_updated / file_deleted event for the same path, or, when the file
\* collaborator fails, by a recoverable error event; every recorded Step is
\* followed by step_complete with its stepNumber unless its file operation
\* failed.
C37_AnnouncementsSettleOrFail ==
    /\ []AnnouncementsSettleOrFail
    /\ InAction ~> ~InAction

\* a finished run whose first upsert failed (file_creating, the error event,
\* no step_complete for step 1) and whose second succeeded
C37_Witness ==
    /\ pc = "done"
    /\ FileFailures(1) # {}
    /\ \E j \in 1..Len(yielded) :
          /\ yielded[j].type = "file_creating"
          /\ yielded[j + 1].type = "error"
    /\ \E j \in 1..Len(yielded) :
          /\ yielded[j].type = "file_creating"
          /\ yielded[j + 1].type = "file_created"
    /\ ~StepCompleted(1)
    /\ StepCompleted(2)

\* C38: through a fresh run and the resumes that follow its pauses, with
\* generic errors in between, the stepNumbers in Context.steps are strictly
\* increasing and lie in 1..maxSteps, so at most maxSteps Steps are recorded.
C38_StepNumbersStrictlyIncrease ==
    /\ \A i, j \in 1..Len(context.steps) :
          i < j => context.steps[i].stepNumber < context.steps[j].stepNumber
    /\ \A i \in 1..Len(context.steps) : context.steps[i].stepNumber \in 1..maxSteps
    /\ Len(context.steps) <= maxSteps
    /\ \A i \in 1..Len(pauseCalls) :
          \A j \in 1..Len(pauseCalls[i].steps) :
              pauseCalls[i].steps[j].stepNumber < pauseCalls[i].pausedAtStep

\* a resumed run that recorded the step it was paused at, after the fresh
\* run had recorded step 1
C38_Witness ==
    /\ invocation = 1
    /\ pc = "done"
    /\ stepsAtStart = 1
    /\ startStep = 2
    /\ Len(context.steps) = 2
    /\ context.steps[2].stepNumber = 2

\* the history fetches of this invocation that failed
FetchFailures == {i \in MyOutcomes : outcomes[i].kind = "messages" /\ ~outcomes[i].ok}

\* C39: a failed fetch of the prior conversation at the start of a fresh run
\* does not stop the run and emits no error event: the loop goes on to
\* step 1 with an empty conversation history.
C39_HistoryFailureIsSilent ==
    \A i \in FetchFailures :
        /\ invocation = 0
        /\ outcomes[i].at = 1
        /\ previousMessages = <<>>
        /\ Has(context, "previousMessages") => context.previousMessages = <<>>
        /\ \A c \in MyCalls("chat") :
              \A m \in 1..Len(calls[c].args) : calls[c].args[m].content[1] # "msg"
        /\ IF outcomes[i].aborted
           THEN Len(calls) = outcomes[i].call
           ELSE /\ Len(calls) > outcomes[i].call
                /\ calls[outcomes[i].call + 1].kind = "prompt"
                /\ calls[outcomes[i].call + 1].stepNumber = 1
                /\ (Len(yielded) > 1 /\ yielded[2].type = "error") =>
                      \E h \in MyOutcomes :
                          /\ h > i
                          /\ outcomes[h].stepNumber = 1
                          /\ outcomes[h].at = 1
                          /\ ~outcomes[h].ok \/ outcomes[h].aborted

\* a run whose history fetch failed and whose step 1 then completed with a
\* prompt of the system and the task message alone
C39_Witness ==
    /\ FetchFailures # {}
    /\ StepCompleted(1)
    /\ yielded[2].type # "error"
    /\ \E c \in MyCalls("chat") : calls[c].stepNumber = 1 /\ Len(calls[c].args) = 2

\* C40: while a resumed run executes, the Context the caller supplied stays
\* as it was handed over: isPaused and pauseReason keep their values, and
\* steps, filesCreated, filesUpdated and filesDeleted are not extended.
C40_SuppliedContextUnchanged ==
    [][(resumeFromContext # None /\ invocation' = invocation) =>
          /\ resumeFromContext' # None
          /\ resumeFromContext'[1].isPaused = resumeFromContext[1].isPaused
          /\ resumeFromContext'[1].pauseReason = resumeFromContext[1].pauseReason
          /\ resumeFromContext'[1].steps = resumeFromContext[1].steps
          /\ resumeFromContext'[1].filesCreated = resumeFromContext[1].filesCreated
          /\ resumeFromContext'[1].filesUpdated = resumeFromContext[1].filesUpdated
          /\ resumeFromContext'[1].filesDeleted = resumeFromContext[1].filesDeleted]_vars

====
